---- MODULE Spec2Model ----
(***************************************************************************)
(* Model of the commit validator (index.js, kept here as                   *)
(* src/unnamed/part_006).                                                  *)
(*                                                                         *)
(* Specifications that share this module:                                  *)
(*   SpecHunk    the hunk parsing of getCopilotReview that builds          *)
(*               stagedChanges, read beside what the diff text really says.*)
(*   SpecReview  getCopilotReview: the hunk parsing, the whole-file scan   *)
(*               and the diff-line pass that fill issues and fileChanges.  *)
(*   SpecFilter  filterMeaningfulChanges in front of getCopilotReview.     *)
(*   Spec        validateCommit: the analysis, the decision prompt,        *)
(*               autoApplyAndRecommit, interactiveReviewAndApply,          *)
(*               applyToNewFiles, safePrompt and the exits.                *)
(*   SpecSkip    validateCommit on trees that hold a skip directive.       *)
(*   SpecApply   autoApplyAndRecommit, applyAISuggestions and              *)
(*               guidedRecommit called with any list of fixes.             *)
(*   SpecSuffix  the apply functions beside an unstaged file whose name    *)
(*               ends a staged path.                                       *)
(*   SpecPrompt  guidedRecommit's prompts and the events that lose a race. *)
(*   SpecFix     the fix text from getCopilotReview to the file written.   *)
(* Each specification keeps the other ones' variables at their idle value. *)
(***************************************************************************)
EXTENDS Integers, Sequences, FiniteSets, TLC

\* ---------------------------------------------------------------- bounds
\* Number of diff lines the hunk parsing reads (SpecHunk).
MaxDiffLines == 7
\* Number of diff lines getCopilotReview reads (SpecReview).
MaxReviewLines == 3
\* Largest new-file start line a hunk header names.
MaxStart == 2
\* Number of lines of a working-tree file the whole-file scan reads.
MaxFileLines == 2

\* ------------------------------------------------------------- constants
\* Paths a diff names; the diff-line pass falls back to 'index.js'.
Files == {"a.js", "b.js"}
NoFile == ""
FallbackFile == "index.js"
AllFiles == Files \cup {FallbackFile}

\* Two entries of the patterns table: one of a severity that yields fixes
\* (empty catch block, high) and one that does not (legacy var, medium).
Rules == {"emptyCatch", "legacyVar"}

Severity(r) == IF r = "emptyCatch" THEN "high" ELSE "medium"

VARIABLES
  \* ---- getCopilotReview
  phase,              \* "idle" | "diff" | "scan" | "done"
  index,              \* number of diff lines read so far (forEach index)
  currentStagedFile,  \* hunk parsing: file of the current block
  currentLineNumber,  \* hunk parsing: new-file line counter
  stagedChanges,      \* file -> set of line numbers
  modifiedFiles,      \* files named by diff --git lines
  toScan,             \* modified files the whole-file scan has not visited
  currentFile,        \* diff-line pass: file of the current block
  issues,             \* issue records
  fileChanges,        \* fix records (file, line, rule, pass)
  \* ---- what the diff read so far really says (history of the input)
  wf,                 \* the lines read so far are a well-formed unified diff
  sect,               \* "start" | "head" | "hunk": place in the file block
  prev,               \* kind of the previous line
  truePos,            \* new-file line number of the next new-file line
  trueMap,            \* file -> new-file positions of its added lines
  blockNew,           \* new-file lines (added, context) read in this block
  seen,               \* files whose block began
  blockFile,          \* file of the current block
  rec,                \* the last line number recorded in stagedChanges
  \* ---- filterMeaningfulChanges in front of getCopilotReview
  read,               \* number of lines of the raw diff read so far
  fate,               \* the last raw line and what the filter did with it
  \* ---- validateCommit and the apply functions
  env,                \* environment variables and terminal, fixed per run
  feedback,           \* what the text returned by getCopilotReview contains
  autoFixes,          \* the fixes parsed from it, handed to the apply function
  pc,                 \* position in the program
  wait,               \* "none", or the prompt the program waits for input in
  timeoutMs,          \* delay of the timer that prompt races, 0 for no timer
  res,                \* result of the last prompt
  queue,              \* file names the apply loop has not visited
  cur,                \* the file under review and its improved content
  appliedFiles,       \* file names written by the apply loop
  disk,               \* path -> content of the working tree
  bak,                \* path -> content of the backup file beside it
  restaged,           \* file names passed to git add
  commits,            \* commits made, each with its options
  exitCode,           \* -1 while running, else the process exit code
  hist                \* history of the run: prompts, writes, backups

reviewVars == <<phase, index, currentStagedFile, currentLineNumber,
                stagedChanges, modifiedFiles, toScan, currentFile, issues,
                fileChanges, wf, sect, prev, truePos, trueMap,
                blockNew, seen, blockFile, rec, read, fate>>

filterVars == <<read, fate>>

flowVars == <<env, feedback, autoFixes, pc, wait, timeoutMs, res, queue, cur,
              appliedFiles, disk, bak, restaged, commits, exitCode, hist>>

vars == <<reviewVars, flowVars>>

\* ------------------------------------------------------------ diff lines
\* A diff line is known by the prefixes the code tests and by what the
\* regular expressions capture from it:
\*   diff     'diff --git a/f b/f'      f = "" when /b\/(.*)$/ does not match
\*   hdr      'index 1a2b..3c4d 100644', 'new file mode ...' (extended header)
\*   old,new  '--- a/f', '+++ b/f'
\*   hunk     '@@ -a,b +c,d @@'         c is the captured new start
\*   badhunk  a line starting with '@@' the hunk regex does not match
\*   add      '+' and text not starting with '++'
\*   addpp    '+' and text starting with '++' (an added line such as '++i;')
\*   del      '-' and text
\*   ctx      ' ' and text
\*   nonl     '\ No newline at end of file'
\* m is the set of rules whose pattern matches the text of an added line.
Kinds == {"diff", "hdr", "old", "new", "hunk", "badhunk", "add", "addpp",
          "del", "ctx", "nonl"}

Line(k, f, c, m) == [k |-> k, f |-> f, c |-> c, m |-> m]

DiffLines ==
  {Line("diff", f, 0, {}) : f \in Files \cup {NoFile}}
  \cup {Line(k, NoFile, 0, {}) : k \in {"hdr", "old", "new", "badhunk", "del", "ctx", "nonl"}}
  \cup {Line("hunk", NoFile, c, {}) : c \in 1..MaxStart}
  \cup {Line(k, NoFile, 0, m) : k \in {"add", "addpp"}, m \in SUBSET Rules}

StartsWithDiffGit(l) == l.k = "diff"
StartsWithAtAt(l) == l.k \in {"hunk", "badhunk"}
StartsWithPlus(l) == l.k \in {"add", "addpp", "new"}
StartsWithPlus3(l) == l.k \in {"addpp", "new"}
StartsWithMinus(l) == l.k \in {"del", "old"}
StartsWithMinus3(l) == l.k = "old"

\* ------------------------------------------------- hunk parsing (Step 1)
\* A parser that forgets the '+++' test and takes the '+++ b/f' line for an
\* addition.
HunkIsAdditionNoMarkerTest(l) == StartsWithPlus(l)

\* else if (line.startsWith('+') && !line.startsWith('+++'))
HunkIsAddition(l) == StartsWithPlus(l) /\ ~StartsWithPlus3(l)

\* else if (!line.startsWith('-') && !line.startsWith('+++') && !line.startsWith('---'))
HunkIsContext(l) ==
  ~StartsWithMinus(l) /\ ~StartsWithPlus3(l) /\ ~StartsWithMinus3(l)

\* currentStagedFile after the line: only a 'diff --git' line assigns it.
NextStagedFile(l) ==
  IF StartsWithDiffGit(l) THEN l.f ELSE currentStagedFile

\* currentLineNumber after the line. A 'diff --git' line leaves it alone; a
\* hunk header the regex matches sets it to c - 1; additions and every line
\* that is neither '-', '+++' nor '---' advance it.
NextLineNumber(l) ==
  IF StartsWithDiffGit(l) THEN currentLineNumber
  ELSE IF StartsWithAtAt(l)
    THEN (IF l.k = "hunk" THEN l.c - 1 ELSE currentLineNumber)
  ELSE IF HunkIsAddition(l) THEN currentLineNumber + 1
  ELSE IF HunkIsContext(l) THEN currentLineNumber + 1
  ELSE currentLineNumber

\* stagedChanges after the line: an addition is recorded under the current
\* file, when there is one, with the advanced counter.
NextStagedChanges(l) ==
  IF /\ ~StartsWithDiffGit(l)
     /\ ~StartsWithAtAt(l)
     /\ HunkIsAddition(l)
     /\ currentStagedFile # NoFile
  THEN [stagedChanges EXCEPT ![currentStagedFile] = @ \cup {currentLineNumber + 1}]
  ELSE stagedChanges

\* First pass: modifiedFiles after the line.
NextModifiedFiles(l) ==
  IF StartsWithDiffGit(l) /\ l.f # NoFile
  THEN modifiedFiles \cup {l.f}
  ELSE modifiedFiles

\* ------------------------------------------------------------ fix records
IsActionable(sev) == sev \in {"critical", "high"}

Issue(f, n, r, staged, pass) ==
  [file |-> f, line |-> n, rule |-> r, staged |-> staged, pass |-> pass]

Fix(f, n, r, pass) == [file |-> f, line |-> n, rule |-> r, pass |-> pass]

\* ------------------------------------------- diff-line pass ("legacy")
\* Track current file
NextCurrentFile(l) == IF StartsWithDiffGit(l) THEN l.f ELSE currentFile

\* if (line.startsWith('+') && !line.startsWith('+++'))
LegacyIsAddition(l) == StartsWithPlus(l) /\ ~StartsWithPlus3(l)

\* const fileName = currentFile || 'index.js'
LegacyFileName(cf) == IF cf # NoFile THEN cf ELSE FallbackFile

\* line: index + 1, the position of the line in the diff text
LegacyFixLine(i) == i + 1

\* if (pattern.severity === 'critical' || pattern.severity === 'high')
LegacyCreatesFix(r) == IsActionable(Severity(r))

LegacyIssues(l, i) ==
  IF LegacyIsAddition(l)
  THEN {Issue(NextCurrentFile(l), i + 1, r, FALSE, "diff") : r \in l.m}
  ELSE {}

LegacyFixes(l, i) ==
  IF LegacyIsAddition(l)
  THEN {Fix(LegacyFileName(NextCurrentFile(l)), LegacyFixLine(i), r, "diff") :
          r \in {q \in l.m : LegacyCreatesFix(q)}}
  ELSE {}

\* ------------------------------------------------------ whole-file scan
\* const isStagedLine = stagedChanges.get(filePath)?.has(actualLineNumber) || false
IsStagedLine(f, n) == n \in stagedChanges[f]

\* the severity test alone
ScanCreatesFixAnyLine(f, n, r) == IsActionable(Severity(r))

\* if (isStagedLine && (pattern.severity === 'critical' || pattern.severity === 'high'))
ScanCreatesFix(f, n, r) == IsStagedLine(f, n) /\ IsActionable(Severity(r))

\* content[n] is the set of rules that flag line n of the file.
ScanIssues(f, content) ==
  UNION {{Issue(f, n, r, IsStagedLine(f, n), "scan") : r \in content[n]} :
           n \in DOMAIN content}

ScanFixes(f, content) ==
  {Fix(f, i.line, i.rule, "scan") :
     i \in {j \in ScanIssues(f, content) : ScanCreatesFix(f, j.line, j.rule)}}

\* --------------------------------------- what the diff text really says
InHunk == sect = "hunk"

HunkLineKinds == {"add", "addpp", "del", "ctx"}

\* The line may follow the lines read so far in a unified diff as git
\* writes it: file blocks of distinct files, each a 'diff --git' line,
\* extended headers, the '---' and '+++' lines, then hunks of at least one
\* line that do not overlap; the no-newline marker follows a hunk line.
Allowed(l) ==
  CASE l.k = "diff" -> l.f # NoFile /\ l.f \notin seen
    [] l.k = "hdr" -> sect = "head" /\ prev \in {"diff", "hdr"}
    [] l.k = "old" -> sect = "head" /\ prev \in {"diff", "hdr"}
    [] l.k = "new" -> sect = "head" /\ prev = "old"
    [] l.k = "hunk" -> \/ sect = "head" /\ prev = "new"
                       \/ sect = "hunk" /\ prev \in HunkLineKinds \cup {"nonl"}
                                        /\ l.c >= truePos
    [] l.k \in HunkLineKinds -> sect = "hunk"
    [] l.k = "nonl" -> sect = "hunk" /\ prev \in HunkLineKinds
    [] OTHER -> FALSE

NoRec == [k |-> "none", f |-> NoFile, n |-> 0, block |-> NoFile,
          hunk |-> FALSE, expect |-> 0]

\* The history of the input, kept beside the parser's own state.
Track(l) ==
  /\ wf' = (wf /\ Allowed(l))
  /\ sect' = (CASE l.k = "diff" -> "head" [] l.k = "hunk" -> "hunk" [] OTHER -> sect)
  /\ prev' = l.k
  /\ seen' = (IF l.k = "diff" /\ l.f # NoFile THEN seen \cup {l.f} ELSE seen)
  /\ blockFile' = (IF l.k = "diff" THEN l.f ELSE blockFile)
  /\ truePos' = (CASE l.k = "hunk" -> l.c
                   [] l.k \in {"add", "addpp", "ctx"} -> truePos + 1
                   [] OTHER -> truePos)
  /\ blockNew' = (CASE l.k = "diff" -> 0
                    [] l.k \in {"add", "addpp", "ctx"} -> blockNew + 1
                    [] OTHER -> blockNew)
  /\ trueMap' = (IF l.k \in {"add", "addpp"} /\ blockFile \in Files /\ InHunk
                 THEN [trueMap EXCEPT ![blockFile] = @ \cup {truePos}]
                 ELSE trueMap)
  /\ rec' = (IF stagedChanges' # stagedChanges
             THEN LET f == CHOOSE g \in AllFiles : stagedChanges'[g] # stagedChanges[g]
                  IN [k |-> l.k, f |-> f,
                      n |-> CHOOSE n \in stagedChanges'[f] : n \notin stagedChanges[f],
                      block |-> blockFile, hunk |-> InHunk,
                      expect |-> blockNew + 1]
             ELSE rec)

NoFate ==
  [k |-> "none", block |-> NoFile, blank |-> FALSE, mentions |-> FALSE,
   kept |-> FALSE]

trackVars == <<wf, sect, prev, truePos, trueMap, blockNew, seen, blockFile, rec>>

\* ==================================================== validateCommit
\* Text is a sequence of fragments that the program never splits; a file's
\* content, and the original and improved text of a fix, are such sequences.
CatchText == "catch (e) {}"
TodoText == " // TODO: Fix: Empty catch block - silently ignoring errors"
OtherText == "run();"
NL == "\n"

\* What reading a path that does not exist yields (ENOENT).
Absent == <<"ENOENT">>

\* Staged paths, the paths of the working tree, and a fix's file names:
\* 'a.js' is a suffix of a staged path and no file of its own, 'index.js'
\* is the name the parser falls back to.
StagedFiles == {"src/a.js", "b.js"}
DiskPaths == {"src/a.js", "b.js", "a.js", "index.js"}
ProperSuffixes == {<<"src/a.js", "a.js">>}

EndsWith(file, suffix) == file = suffix \/ <<file, suffix>> \in ProperSuffixes

\* stagedFiles.some(file => file.endsWith(filename) || file === filename)
IsStaged(filename) ==
  \E file \in StagedFiles : EndsWith(file, filename) \/ file = filename

\* path.resolve(process.cwd(), filename), the hook running at the root
FilePath(filename) == filename

\* filePath.replace(/(\\.(\\w+))$/, '.copilot$1'): the pattern asks for a
\* backslash, any character, a backslash and a run of 'w' at the end of
\* the path, which no path of DiskPaths has, so the path comes back as is.
ImprovedPath(filePath) == filePath

\* String.prototype.replace(string, string): the first occurrence only.
Occurs(s, sub, i) ==
  /\ i + Len(sub) - 1 <= Len(s)
  /\ SubSeq(s, i, i + Len(sub) - 1) = sub

IndexOf(s, sub) ==
  IF \E i \in 1..Len(s) : Occurs(s, sub, i)
  THEN CHOOSE i \in 1..Len(s) :
         Occurs(s, sub, i) /\ \A j \in 1..(i - 1) : ~Occurs(s, sub, j)
  ELSE 0

Replace(s, sub, rep) ==
  LET i == IndexOf(s, sub)
  IN IF i = 0 THEN s
     ELSE SubSeq(s, 1, i - 1) \o rep \o SubSeq(s, i + Len(sub), Len(s))

\* The grouping of the fixes by file: Map keys in insertion order.
RECURSIVE FileOrder(_)
FileOrder(fixes) ==
  IF fixes = <<>> THEN <<>>
  ELSE LET rest == FileOrder(SubSeq(fixes, 1, Len(fixes) - 1))
           name == fixes[Len(fixes)].filename
       IN IF \E i \in DOMAIN rest : rest[i] = name THEN rest
          ELSE Append(rest, name)

FixesOf(fixes, filename) ==
  SelectSeq(fixes, LAMBDA f : f.filename = filename)

\* fixes.sort((a, b) => b.line - a.line): descending and stable.
RECURSIVE SortDescending(_)
SortDescending(fixes) ==
  IF fixes = <<>> THEN <<>>
  ELSE LET last == fixes[Len(fixes)]
           rest == SortDescending(SubSeq(fixes, 1, Len(fixes) - 1))
           keep == SelectSeq(rest, LAMBDA f : f.line >= last.line)
           after == SelectSeq(rest, LAMBDA f : f.line < last.line)
       IN keep \o <<last>> \o after

RECURSIVE ReplaceAll(_, _)
ReplaceAll(content, sortedFixes) ==
  IF sortedFixes = <<>> THEN content
  ELSE ReplaceAll(Replace(content, Head(sortedFixes).original,
                          Head(sortedFixes).improved),
                  Tail(sortedFixes))

\* modifiedContent of a file, from its content and the fixes of the run
ModifiedContent(originalContent, fixes, filename) ==
  ReplaceAll(originalContent, SortDescending(FixesOf(fixes, filename)))

\* ------------------------------------------------------ the inputs
MaxFixes == 2

FixFor(name) ==
  [filename |-> name, line |-> 1, original |-> <<CatchText>>,
   improved |-> <<CatchText, TodoText>>, type |-> ""]

\* effectiveFixes when nothing was parsed and the feedback is critical
FallbackFix ==
  [filename |-> "index.js", line |-> 1,
   original |-> <<"critical issues detected">>,
   improved |-> <<"manual fix required">>, type |-> "fallback"]

FixPool == {FixFor(name) : name \in DiskPaths}

FixLists == UNION {[1..n -> FixPool] : n \in 0..MaxFixes}

InitialDisk ==
  [p \in DiskPaths |->
     CASE p = "src/a.js" -> <<CatchText, NL, CatchText>>
       [] p = "b.js" -> <<OtherText, NL, CatchText>>
       [] OTHER -> Absent]

OnCancelValues == {"", "cancel", "skip", "auto-apply"}
AutoSelectValues == {"", "1", "2", "3", "4", "5", "yes"}

\* AI_SKIP_DIRECTIVE_REGEX: unset, or a pattern of the user's ("catch")
SkipRegexValues == {"", "catch"}

\* AI_PROMPT_TIMEOUT_MS: unset, or "0" for no timeout
PromptTimeoutValues == {"", "0"}

Envs ==
  [onCancel : OnCancelValues, stdinTTY : BOOLEAN, stdoutTTY : BOOLEAN,
   forcePrompt : BOOLEAN, autoSelect : AutoSelectValues, hasToken : BOOLEAN,
   promptTimeoutMs : PromptTimeoutValues, optionalMode : BOOLEAN,
   skipDirectiveRegex : SkipRegexValues]

\* ------------------------------------------------------ configuration
\* (process.env.AI_DEFAULT_ON_CANCEL || 'cancel').toLowerCase()
DEFAULT_ON_CANCEL == IF env.onCancel = "" THEN "cancel" ELSE env.onCancel

needsTtyFallback == ~env.stdinTTY \/ ~env.stdoutTTY

nonInteractive == ~env.stdinTTY

\* process.env.AI_OPTIONAL_MODE === 'true' || process.env.CI === 'true'
isOptionalMode == env.optionalMode

\* parseInt(autoSelect, 10), 0 standing for NaN
ParseInt(v) ==
  CASE v = "1" -> 1 [] v = "2" -> 2 [] v = "3" -> 3 [] v = "4" -> 4
    [] v = "5" -> 5 [] OTHER -> 0

enhancedChoices ==
  <<"auto-apply", "keep-local", "review-only", "skip", "cancel">>

Min(a, b) == IF a < b THEN a ELSE b
Max(a, b) == IF a > b THEN a ELSE b

\* Math.max(0, Math.min(choices.length - 1, (parseInt(autoSelect) || 1) - 1))
AutoSelectIndex ==
  LET n == IF ParseInt(env.autoSelect) = 0 THEN 1 ELSE ParseInt(env.autoSelect)
  IN Max(0, Min(Len(enhancedChoices) - 1, n - 1))

\* ['1','true','yes','y'].includes(autoSelect.toLowerCase())
AutoSelectTruthy == env.autoSelect \in {"1", "true", "yes", "y"}

AutoSelectAnswer(type) ==
  CASE type = "list" -> enhancedChoices[AutoSelectIndex + 1]
    [] type = "confirm" -> IF AutoSelectTruthy THEN "yes" ELSE "no"
    [] OTHER -> env.autoSelect

\* ------------------------------------------------------ prompts
\* The prompts of safePrompt, which race a timer, and those of a bare
\* inquirer.prompt, which do not.
SafePromptSites ==
  {"openMore", "enhancedDecision", "apply", "confirmRecommit", "stageAll",
   "message"}
InquirerSites == {"proceed", "confirmCommit"}

\* The three confirmation prompts of the workflow.
ConfirmationSites == {"enhancedDecision", "apply", "confirmRecommit"}

PromptType(site) ==
  CASE site = "enhancedDecision" -> "list"
    [] site = "message" -> "input"
    [] OTHER -> "confirm"

\* what the user can type at the 'Commit message:' prompt
Messages == {"", "fix: apply suggestions"}

Choices(site) ==
  CASE PromptType(site) = "list" ->
         {enhancedChoices[i] : i \in DOMAIN enhancedChoices}
    [] PromptType(site) = "input" -> Messages
    [] OTHER -> {"yes", "no"}

NoAnswer == [cancelled |-> FALSE, answer |-> "none"]
Cancelled == [cancelled |-> TRUE, answer |-> "none"]
Answered(v) == [cancelled |-> FALSE, answer |-> v]

NoteAnswered(h, site) == [h EXCEPT !.answered = @ \cup {site}]
NoteCancelled(h, site) == [h EXCEPT !.cancelled = @ \cup {site}]

\* A file write or a commit, noted as late when a confirmation prompt had
\* timed out or been cancelled before it.
NoteEffect(h, e) ==
  IF h.cancelled \cap ConfirmationSites # {}
  THEN [h EXCEPT !.late = @ \cup {e}]
  ELSE h

\* parseInt(process.env.AI_PROMPT_TIMEOUT_MS || '120000')
ConfiguredTimeoutMs == IF env.promptTimeoutMs = "" THEN 120000 ELSE 0

\* the timeoutMs option each call of safePrompt passes
OptionTimeoutMs(site) ==
  CASE site = "enhancedDecision" -> 300000
    [] site = "openMore" -> 10000
    [] OTHER -> 30000

\* the call sites that pass a number as timeoutMs: all of them
SitesWithTimeoutOption == SafePromptSites

\* typeof opts.timeoutMs === 'number' ? opts.timeoutMs : parseInt(...)
SafePromptTimeoutMs(site) ==
  IF site \in SitesWithTimeoutOption THEN OptionTimeoutMs(site)
  ELSE ConfiguredTimeoutMs

\* safePrompt up to the point where it returns or starts to wait; h is the
\* history the caller has written so far.
safePrompt(site, h) ==
  /\ pc' = site
  /\ IF env.autoSelect # ""
     THEN /\ wait' = "none"
          /\ timeoutMs' = 0
          /\ res' = Answered(AutoSelectAnswer(PromptType(site)))
          /\ hist' = NoteAnswered(h, site)
     ELSE IF needsTtyFallback /\ ~env.forcePrompt
     THEN /\ wait' = "none"
          /\ timeoutMs' = 0
          /\ res' = Cancelled
          /\ hist' = NoteCancelled(h, site)
     ELSE /\ wait' = site
          /\ timeoutMs' = SafePromptTimeoutMs(site)
          /\ res' = NoAnswer
          /\ hist' = h

\* inquirer.prompt called directly: it waits whatever the terminal is.
inquirerPrompt(site) ==
  /\ pc' = site
  /\ wait' = site
  /\ timeoutMs' = 0
  /\ res' = NoAnswer

Exit(code) == pc' = "exited" /\ exitCode' = code

\* The user answers the prompt the program waits in.
UserAnswers ==
  /\ wait # "none"
  /\ \E v \in Choices(wait) : res' = Answered(v)
  /\ wait' = "none"
  /\ timeoutMs' = 0
  /\ hist' = NoteAnswered(hist, wait)
  /\ UNCHANGED <<env, feedback, autoFixes, pc, queue, cur, appliedFiles,
                 disk, bak, restaged, commits, exitCode>>
  /\ UNCHANGED reviewVars

\* The timer of safePrompt wins the race (every call passes a timeoutMs
\* that is not 0).
TimerFires ==
  /\ wait \in SafePromptSites
  /\ timeoutMs # 0
  /\ res' = Cancelled
  /\ wait' = "none"
  /\ timeoutMs' = 0
  /\ hist' = NoteCancelled(hist, wait)
  /\ UNCHANGED <<env, feedback, autoFixes, pc, queue, cur, appliedFiles,
                 disk, bak, restaged, commits, exitCode>>
  /\ UNCHANGED reviewVars

\* The prompt is force-closed (ExitPromptError): safePrompt catches it and
\* returns cancelled, the callers of inquirer.prompt catch it themselves.
PromptClosed ==
  /\ wait # "none"
  /\ res' = Cancelled
  /\ wait' = "none"
  /\ timeoutMs' = 0
  /\ hist' = NoteCancelled(hist, wait)
  /\ UNCHANGED <<env, feedback, autoFixes, pc, queue, cur, appliedFiles,
                 disk, bak, restaged, commits, exitCode>>
  /\ UNCHANGED reviewVars

\* were the race re-run by whatever settles last
RaceLastWins(first, later) == later

\* Promise.race([p, timer]): the value of the promise that settled first;
\* the one that settles later resolves with nothing awaiting it
RaceResult(first, later) == first

NoteLate(h, e) == [h EXCEPT !.lateEvents = @ \cup {e}]

\* a prompt was really opened and raced a timer
PromptWasOpened ==
  /\ env.autoSelect = ""
  /\ ~(needsTtyFallback /\ ~env.forcePrompt)

\* The user answers a prompt whose timer has already won: safePrompt left
\* the inquirer prompt open when it returned cancelled.
LateAnswer ==
  /\ PromptWasOpened
  /\ \E site \in (hist.cancelled \cap SafePromptSites) \ {wait} :
       \E v \in Choices(site) : res' = RaceResult(res, Answered(v))
  /\ hist' = NoteLate(hist, "answer")
  /\ UNCHANGED <<env, feedback, autoFixes, pc, wait, timeoutMs, queue, cur,
                 appliedFiles, disk, bak, restaged, commits, exitCode>>
  /\ UNCHANGED reviewVars

\* The timer of a prompt the user has already answered expires: setTimeout
\* is never cleared. process.exit ends the timers with the process.
LateTimer ==
  /\ PromptWasOpened
  /\ pc # "exited"
  /\ (hist.answered \cap SafePromptSites) \ {wait} # {}
  /\ res' = RaceResult(res, Cancelled)
  /\ hist' = NoteLate(hist, "timer")
  /\ UNCHANGED <<env, feedback, autoFixes, pc, wait, timeoutMs, queue, cur,
                 appliedFiles, disk, bak, restaged, commits, exitCode>>
  /\ UNCHANGED reviewVars

\* ------------------------------------------------------ fix synthesis
\* Lines of text the synthesis is run on: a call on an identifier no line
\* declares, the declaration of that identifier, an empty catch block.
UseText == "results.push(1);"
DeclaredText == "const results = [];"
\* `const ${varName} = ${defaultValue}; // Auto-fix: Variable declaration`
DeclText == "const results = []; // Auto-fix: Variable declaration"
\* the TODO comment of the codeQuality entry 'Empty catch block'
TodoQualityText == " // TODO: Fix: Empty catch block"
\* the arrow that separates the two texts of a feedback line
Arrow == " -> "
LinePrefix == "Line "
FilePrefix == "File: "
Colon == ": "

TextPool == {UseText, DeclaredText, CatchText}

\* text.split('\n')
RECURSIVE SplitLines(_)
SplitLines(s) ==
  IF \E i \in DOMAIN s : s[i] = NL
  THEN LET i == CHOOSE j \in DOMAIN s :
                  s[j] = NL /\ \A k \in 1..(j - 1) : s[k] # NL
       IN <<SubSeq(s, 1, i - 1)>> \o SplitLines(SubSeq(s, i + 1, Len(s)))
  ELSE <<s>>

\* lines.join('\n')
RECURSIVE JoinLines(_)
JoinLines(lines) ==
  IF Len(lines) = 0 THEN <<>>
  ELSE IF Len(lines) = 1 THEN lines[1]
  ELSE lines[1] \o <<NL>> \o JoinLines(Tail(lines))

\* The critical and high entries of the patterns table whose regex matches
\* the line, in the order of the table.
MatchingPatterns(line) ==
  CASE line = <<UseText>> -> <<"undeclaredMethod">>
    [] line = <<CatchText>> -> <<"emptyCatch", "emptyCatchQuality">>
    [] OTHER -> <<>>

\* pattern.message.includes('undeclared variable')
IsUndeclaredPattern(rule) == rule = "undeclaredMethod"

\* declaredVariables.has('results'): some line of the file declares it
DeclaresResults(fileLines) ==
  \E n \in DOMAIN fileLines : fileLines[n] \in {<<DeclaredText>>, <<DeclText>>}

generateSmartFix(code, rule, declared) ==
  CASE rule = "undeclaredMethod" ->
         IF declared THEN code ELSE <<DeclText, NL>> \o code
    [] rule = "emptyCatch" -> code \o <<TodoText>>
    [] OTHER -> code \o <<TodoQualityText>>

Change(file, n, original, improved) ==
  [file |-> file, line |-> n, original |-> original, improved |-> improved]

\* Step 2 for one line of the file: the fix records it pushes.
ScanLine(file, fileLines, n, staged) ==
  LET line == fileLines[n]
      declared == DeclaresResults(fileLines)
      hits == SelectSeq(MatchingPatterns(line),
                        LAMBDA r : IsUndeclaredPattern(r) => ~declared)
  IN IF n \in staged
     THEN [k \in DOMAIN hits |->
             Change(file, n, line, generateSmartFix(line, hits[k], declared))]
     ELSE <<>>

RECURSIVE ScanChanges(_, _, _, _)
ScanChanges(file, fileLines, upTo, staged) ==
  IF upTo = 0 THEN <<>>
  ELSE ScanChanges(file, fileLines, upTo - 1, staged)
         \o ScanLine(file, fileLines, upTo, staged)

\* Lines of a diff before the first line of the file's only hunk:
\* 'diff --git', 'index', '---', '+++', '@@'.
HeaderLines == 5

\* The diff-line pass for the added line that is line n of the file.
LegacyLine(file, fileLines, n, staged) ==
  LET code == fileLines[n]
      hits == MatchingPatterns(code)
  IN IF n \in staged
     THEN [k \in DOMAIN hits |->
             Change(file, n + HeaderLines, code,
                    generateSmartFix(code, hits[k], DeclaresResults(fileLines)))]
     ELSE <<>>

RECURSIVE LegacyChanges(_, _, _, _)
LegacyChanges(file, fileLines, upTo, staged) ==
  IF upTo = 0 THEN <<>>
  ELSE LegacyChanges(file, fileLines, upTo - 1, staged)
         \o LegacyLine(file, fileLines, upTo, staged)

\* fileChanges.get(file) when getCopilotReview returns
EmittedChanges(file, content, staged) ==
  LET fileLines == SplitLines(content)
  IN ScanChanges(file, fileLines, Len(fileLines), staged)
       \o LegacyChanges(file, fileLines, Len(fileLines), staged)

\* `${change.line}` and parseInt(match[1])
Digits == <<"1", "2", "3", "4", "5", "6", "7", "8", "9">>
ParseLineNumber(s) == CHOOSE n \in DOMAIN Digits : Digits[n] = s

\* `Line ${change.line}: ${change.original.trim()} -> ${change.improved.trim()}\n`
FeedbackLine(change) ==
  <<LinePrefix, Digits[change.line], Colon>> \o change.original
    \o <<Arrow>> \o change.improved \o <<NL>>

RECURSIVE FeedbackLines(_)
FeedbackLines(changes) ==
  IF changes = <<>> THEN <<>>
  ELSE FeedbackLine(Head(changes)) \o FeedbackLines(Tail(changes))

\* the text after AUTO_APPLICABLE_FIXES
AutoFixSection(file, changes) ==
  IF changes = <<>> THEN <<>>
  ELSE <<NL, FilePrefix, file, NL>> \o FeedbackLines(changes)

\* line.match(/Line (\d+): (.+?) -> (.+)/)
LineMatches(line) ==
  /\ Len(line) >= 6
  /\ line[1] = LinePrefix
  /\ line[3] = Colon
  /\ \E a \in 5..(Len(line) - 1) : line[a] = Arrow

FirstArrow(line) ==
  CHOOSE a \in 5..(Len(line) - 1) :
    line[a] = Arrow /\ \A b \in 5..(a - 1) : line[b] # Arrow

RECURSIVE ParseLines(_, _)
ParseLines(lines, file) ==
  IF lines = <<>> THEN <<>>
  ELSE LET line == Head(lines)
       IN IF Len(line) >= 1 /\ line[1] = FilePrefix
          THEN ParseLines(Tail(lines),
                          IF Len(line) >= 2 THEN line[2] ELSE "index.js")
          ELSE IF LineMatches(line)
          THEN <<[filename |-> IF file = "" THEN "index.js" ELSE file,
                  line |-> ParseLineNumber(line[2]),
                  original |-> SubSeq(line, 4, FirstArrow(line) - 1),
                  improved |-> SubSeq(line, FirstArrow(line) + 1, Len(line)),
                  type |-> ""]>> \o ParseLines(Tail(lines), file)
          ELSE ParseLines(Tail(lines), file)

parseAutoApplicableFixes(autoFixSection) ==
  ParseLines(SplitLines(autoFixSection), "")

\* a fix record of getCopilotReview handed over as it is
AsFix(change) ==
  [filename |-> change.file, line |-> change.line,
   original |-> change.original, improved |-> change.improved, type |-> ""]

\* ------------------------------------------------------ what a fix asks for
\* The lines of a file after line n was replaced by the lines of text.
ReplaceLine(fileLines, n, text) ==
  SubSeq(fileLines, 1, n - 1) \o SplitLines(text)
    \o SubSeq(fileLines, n + 1, Len(fileLines))

\* The fix names a line of the file and that line's text.
TargetsLine(fix, fileLines) ==
  /\ fix.line \in DOMAIN fileLines
  /\ fileLines[fix.line] = fix.original

\* Every fix applied to its own line, from the last line to the first.
RECURSIVE ApplyByLine(_, _)
ApplyByLine(fileLines, sortedFixes) ==
  IF sortedFixes = <<>> THEN fileLines
  ELSE ApplyByLine(ReplaceLine(fileLines, Head(sortedFixes).line,
                               Head(sortedFixes).improved),
                   Tail(sortedFixes))

\* ------------------------------------------------------ skip directives
\* The directive comments of the README ('Skip Directives') and of the
\* production naming guide, as the documents write them.
ReadmeDirectives ==
  {"// hotfix: no-review", "// urgent: skip-validation",
   "// deployment: no-check", "// config: no-validation",
   "// no-review: minor-change", "// skip: documentation",
   "// bypass: generated-code"}

GuideDirectives ==
  {"// hotfix: no-review", "// emergency: skip-validation",
   "// generated: no-validation", "// third-party: skip-review",
   "// prototype: skip-checks", "// legacy: no-validation",
   "// ai-review: skip", "// commit-validator: bypass"}

DocumentedDirectives == ReadmeDirectives \cup GuideDirectives

\* The comments the alternatives of defaultPattern match.
defaultPattern ==
  {"// ai-review: skip", "// commit-validator: bypass",
   "// hotfix: no-review", "// emergency: skip-validation",
   "// generated: no-validation", "// third-party: skip-review",
   "// legacy: no-validation", "// prototype: skip-checks"}

\* new RegExp(customPattern || defaultPattern, 'i').test(content)
skipPattern(content) ==
  \E i \in DOMAIN content :
    IF env.skipDirectiveRegex = "" THEN content[i] \in defaultPattern
    ELSE content[i] = CatchText

\* detectSkipDirective(stagedFiles).skip: some staged file that exists has
\* content the pattern matches.
detectSkipDirective ==
  \E file \in StagedFiles :
    /\ disk[FilePath(file)] # Absent
    /\ skipPattern(disk[FilePath(file)])

\* Working trees in which one staged file starts with a documented
\* directive comment.
DirectiveDisks ==
  {[InitialDisk EXCEPT ![f] = <<d, NL>> \o @] :
     f \in StagedFiles, d \in DocumentedDirectives}

\* ------------------------------------------------------ validateCommit
\* if (!rawDiff.trim()) process.exit(0)
NoStagedChanges ==
  /\ pc = "validateCommit"
  /\ Exit(0)
  /\ UNCHANGED <<env, feedback, autoFixes, wait, timeoutMs, res, queue, cur,
                 appliedFiles, disk, bak, restaged, commits, hist>>
  /\ UNCHANGED reviewVars

\* git.diff (or any later await outside the inner try blocks) throws: the
\* outer catch exits 0 in optional mode and rethrows otherwise, which ends
\* the process with the code of an unhandled rejection.
ValidationError ==
  /\ pc = "validateCommit"
  /\ Exit(IF isOptionalMode THEN 0 ELSE 1)
  /\ UNCHANGED <<env, feedback, autoFixes, wait, timeoutMs, res, queue, cur,
                 appliedFiles, disk, bak, restaged, commits, hist>>
  /\ UNCHANGED reviewVars

\* if (skip) process.exit(0)
SkipDirective ==
  /\ pc = "validateCommit"
  /\ detectSkipDirective
  /\ Exit(0)
  /\ UNCHANGED <<env, feedback, autoFixes, wait, timeoutMs, res, queue, cur,
                 appliedFiles, disk, bak, restaged, commits, hist>>
  /\ UNCHANGED reviewVars

\* if (!meaningfulDiff.trim()) process.exit(0)
OnlySystemFiles ==
  /\ pc = "validateCommit"
  /\ ~detectSkipDirective
  /\ Exit(0)
  /\ UNCHANGED <<env, feedback, autoFixes, wait, timeoutMs, res, queue, cur,
                 appliedFiles, disk, bak, restaged, commits, hist>>
  /\ UNCHANGED reviewVars

\* aiFeedback.includes("✅"): the text of a review that found no issue
\* opens with the mark; the text of one that found issues is made of the
\* fixed headings, the suggestions of the patterns table and, for each fix,
\* 'Line n: original → improved', which quotes the staged code, so it has
\* the mark when a quoted line has it
FeedbackIncludesCheckMark(noIssues, quotedMark) == noIssues \/ quotedMark

\* aiFeedback = await getCopilotReview(meaningfulDiff): the review found
\* issues or not, names a critical issue or not, and lists fixes that
\* parseAutoApplicableFixes reads back; the code a fix quotes holds the
\* check mark or not.
CopilotReview ==
  /\ pc = "validateCommit"
  /\ ~detectSkipDirective
  /\ env.hasToken
  /\ \E found \in BOOLEAN, critical \in BOOLEAN, fixes \in FixLists,
        quotedMark \in BOOLEAN :
       /\ ~found => (~critical /\ fixes = <<>>)
       /\ quotedMark => fixes # <<>>
       /\ feedback' = [check |-> FeedbackIncludesCheckMark(~found, quotedMark),
                       critical |-> critical, issues |-> found]
       /\ autoFixes' = fixes
  /\ pc' = "openErrorLocations"
  /\ UNCHANGED <<env, wait, timeoutMs, res, queue, cur, appliedFiles, disk, bak,
                 restaged, commits, exitCode, hist>>
  /\ UNCHANGED reviewVars

\* getCopilotReview throws: return await localCodeAnalysis(meaningfulDiff)
CopilotUnavailable ==
  /\ pc = "validateCommit"
  /\ ~detectSkipDirective
  /\ env.hasToken
  /\ pc' = "localCodeAnalysis"
  /\ UNCHANGED <<env, feedback, autoFixes, wait, timeoutMs, res, queue, cur,
                 appliedFiles, disk, bak, restaged, commits, exitCode, hist>>
  /\ UNCHANGED reviewVars

\* no token: return await localCodeAnalysis(meaningfulDiff)
NoToken ==
  /\ pc = "validateCommit"
  /\ ~detectSkipDirective
  /\ ~env.hasToken
  /\ pc' = "localCodeAnalysis"
  /\ UNCHANGED <<env, feedback, autoFixes, wait, timeoutMs, res, queue, cur,
                 appliedFiles, disk, bak, restaged, commits, exitCode, hist>>
  /\ UNCHANGED reviewVars

\* localCodeAnalysis with issues.length === 0
LocalNoIssues ==
  /\ pc = "localCodeAnalysis"
  /\ Exit(0)
  /\ UNCHANGED <<env, feedback, autoFixes, wait, timeoutMs, res, queue, cur,
                 appliedFiles, disk, bak, restaged, commits, hist>>
  /\ UNCHANGED reviewVars

\* localCodeAnalysis with issues: inquirer.prompt 'proceed'
LocalIssues ==
  /\ pc = "localCodeAnalysis"
  /\ inquirerPrompt("proceed")
  /\ UNCHANGED <<env, feedback, autoFixes, queue, cur, appliedFiles, disk,
                 bak, restaged, commits, exitCode, hist>>
  /\ UNCHANGED reviewVars

\* after the prompt of localCodeAnalysis: proceed, refuse, or the catch
LocalDecided ==
  /\ pc = "proceed"
  /\ wait = "none"
  /\ Exit(IF res.cancelled \/ res.answer = "yes" THEN 0 ELSE 1)
  /\ UNCHANGED <<env, feedback, autoFixes, wait, timeoutMs, res, queue, cur,
                 appliedFiles, disk, bak, restaged, commits, hist>>
  /\ UNCHANGED reviewVars

\* openErrorLocations: with AI_AUTO_OPEN_ERRORS and more than one error
\* location it asks 'openMore' through safePrompt, else it returns.
OpenErrorLocations ==
  /\ pc = "openErrorLocations"
  /\ \E ask \in BOOLEAN :
       IF ask THEN safePrompt("openMore", hist)
       ELSE pc' = "feedback" /\ UNCHANGED <<wait, timeoutMs, res, hist>>
  /\ UNCHANGED <<env, feedback, autoFixes, queue, cur, appliedFiles, disk,
                 bak, restaged, commits, exitCode>>
  /\ UNCHANGED reviewVars

\* the result of 'openMore' is destructured as { openMore } from
\* { cancelled, answers }, so nothing more is opened
OpenMoreDone ==
  /\ pc = "openMore"
  /\ wait = "none"
  /\ pc' = "feedback"
  /\ UNCHANGED <<env, feedback, autoFixes, wait, timeoutMs, res, queue, cur,
                 appliedFiles, disk, bak, restaged, commits, exitCode, hist>>
  /\ UNCHANGED reviewVars

\* if (aiFeedback.includes("✅")) process.exit(0)
CommitAllowed ==
  /\ pc = "feedback"
  /\ feedback.check
  /\ Exit(0)
  /\ UNCHANGED <<env, feedback, autoFixes, wait, timeoutMs, res, queue, cur,
                 appliedFiles, disk, bak, restaged, commits, hist>>
  /\ UNCHANGED reviewVars

\* the session decision prompt
EnhancedWorkflow ==
  /\ pc = "feedback"
  /\ ~feedback.check
  /\ safePrompt("enhancedDecision", hist)
  /\ UNCHANGED <<env, feedback, autoFixes, queue, cur, appliedFiles, disk,
                 bak, restaged, commits, exitCode>>
  /\ UNCHANGED reviewVars

effectiveFixes ==
  IF autoFixes = <<>> /\ feedback.critical THEN <<FallbackFix>> ELSE autoFixes

\* what a cancelled session prompt is taken to have chosen
DecisionOnCancel ==
  CASE DEFAULT_ON_CANCEL = "auto-apply" -> "auto-apply"
    [] DEFAULT_ON_CANCEL = "skip" -> "skip"
    [] OTHER -> "review-only"

enhancedDecision == IF res.cancelled THEN DecisionOnCancel ELSE res.answer

\* the branches on enhancedDecision; fixes is effectiveFixes with an empty
\* file name replaced, and the parser leaves no file name empty
Decide ==
  /\ pc = "enhancedDecision"
  /\ wait = "none"
  /\ CASE enhancedDecision = "auto-apply" ->
            IF effectiveFixes = <<>> \/ effectiveFixes[1].type = "fallback"
            THEN Exit(1) /\ UNCHANGED <<autoFixes, queue>>
            ELSE /\ pc' = "autoApplyAndRecommit"
                 /\ autoFixes' = effectiveFixes
                 /\ UNCHANGED <<exitCode, queue>>
       [] enhancedDecision = "keep-local" ->
            /\ pc' = "applyToNewFiles"
            /\ autoFixes' = effectiveFixes
            /\ queue' = FileOrder(effectiveFixes)
            /\ UNCHANGED exitCode
       [] enhancedDecision = "review-only" ->
            Exit(1) /\ UNCHANGED <<autoFixes, queue>>
       [] enhancedDecision = "skip" ->
            Exit(0) /\ UNCHANGED <<autoFixes, queue>>
       [] OTHER -> Exit(1) /\ UNCHANGED <<autoFixes, queue>>
  /\ UNCHANGED <<env, feedback, wait, timeoutMs, res, cur, appliedFiles, disk, bak,
                 restaged, commits, hist>>
  /\ UNCHANGED reviewVars

\* ------------------------------------------------ autoApplyAndRecommit
NoCur == [filename |-> "", modifiedContent |-> <<>>]

\* the backup file written beside filePath
BackupSkipped(b, filePath, originalContent) == b

\* await fs.writeFile(backupPath, originalContent)
WriteBackup(b, filePath, originalContent) ==
  [b EXCEPT ![filePath] = originalContent]

NoteBackup(h, filePath) == [h EXCEPT !.backups[filePath] = @ + 1]

\* a write of improved content over filePath, with whether the backup held
\* the content the write replaces
NoteWrite(h, filePath, fn, b) ==
  [NoteEffect(h, "write") EXCEPT
     !.writes = @ \cup {[path |-> filePath, fn |-> fn,
                         backed |-> b[filePath] = disk[filePath]]}]

ReviewAlwaysWrites(accepted) == TRUE

\* if (!accepted) continue; else the file is written
ReviewWrites(accepted) == accepted

\* the entry of autoApplyAndRecommit: the fallback check and the grouping
AutoApplyEntry ==
  /\ pc = "autoApplyAndRecommit"
  /\ IF autoFixes # <<>> /\ autoFixes[1].type = "fallback"
     THEN Exit(1) /\ UNCHANGED queue
     ELSE pc' = "applyLoop" /\ queue' = FileOrder(autoFixes) /\ UNCHANGED exitCode
  /\ UNCHANGED <<env, feedback, autoFixes, wait, timeoutMs, res, cur, appliedFiles,
                 disk, bak, restaged, commits, hist>>
  /\ UNCHANGED reviewVars

\* a file name that matches no staged file is skipped
ApplyNotStaged ==
  /\ pc = "applyLoop"
  /\ queue # <<>>
  /\ ~IsStaged(Head(queue))
  /\ queue' = Tail(queue)
  /\ UNCHANGED <<env, feedback, autoFixes, pc, wait, timeoutMs, res, cur, appliedFiles,
                 disk, bak, restaged, commits, exitCode, hist>>
  /\ UNCHANGED reviewVars

\* were the file's try block missing, the error would end the loop
AfterFileErrorLoopEnds(q) == <<>>

\* catch (error) { console.log(...) } inside the loop: the loop goes on
\* with the files that remain
AfterFileError(q) == Tail(q)

NoteFailed(h, filename) == [h EXCEPT !.failed = @ \cup {filename}]

\* fs.readFile throws; the catch of the file logs it
ApplyReadFails ==
  /\ pc = "applyLoop"
  /\ queue # <<>>
  /\ IsStaged(Head(queue))
  /\ disk[FilePath(Head(queue))] = Absent
  /\ queue' = AfterFileError(queue)
  /\ hist' = NoteFailed(hist, Head(queue))
  /\ UNCHANGED <<env, feedback, autoFixes, pc, wait, timeoutMs, res, cur, appliedFiles,
                 disk, bak, restaged, commits, exitCode>>
  /\ UNCHANGED reviewVars

\* fs.writeFile(backupPath, originalContent) throws: no backup, no write
ApplyBackupFails ==
  /\ pc = "applyLoop"
  /\ queue # <<>>
  /\ IsStaged(Head(queue))
  /\ disk[FilePath(Head(queue))] # Absent
  /\ queue' = AfterFileError(queue)
  /\ hist' = NoteFailed(hist, Head(queue))
  /\ UNCHANGED <<env, feedback, autoFixes, pc, wait, timeoutMs, res, cur, appliedFiles,
                 disk, bak, restaged, commits, exitCode>>
  /\ UNCHANGED reviewVars

ReviewOnCancelRejects == FALSE

\* what a review settles to with no answer: DEFAULT_ON_CANCEL decides
ReviewOnCancel == DEFAULT_ON_CANCEL = "auto-apply"

\* the file is read and backed up, its improved content computed, and
\* interactiveReviewAndApply either settles at once (stdin no TTY and no
\* AI_FORCE_PROMPT) or asks 'apply' through safePrompt; when it settles on
\* writing, fs.writeFile(filePath, modifiedContent) succeeds or throws
ApplyFile ==
  /\ pc = "applyLoop"
  /\ queue # <<>>
  /\ IsStaged(Head(queue))
  /\ disk[FilePath(Head(queue))] # Absent
  /\ LET filename == Head(queue)
         filePath == FilePath(filename)
         originalContent == disk[filePath]
         modifiedContent == ModifiedContent(originalContent, autoFixes, filename)
         backedUp == NoteBackup(hist, filePath)
     IN /\ bak' = WriteBackup(bak, filePath, originalContent)
        /\ IF nonInteractive /\ ~env.forcePrompt
           THEN /\ IF ReviewWrites(ReviewOnCancel)
                   THEN \/ /\ disk' = [disk EXCEPT ![filePath] = modifiedContent]
                           /\ appliedFiles' = Append(appliedFiles, filename)
                           /\ hist' = NoteWrite(
                                [backedUp EXCEPT !.review[filename] =
                                   IF ReviewOnCancel THEN "accepted"
                                   ELSE "rejected"],
                                filePath, "autoApplyAndRecommit", bak')
                           /\ queue' = Tail(queue)
                        \/ /\ hist' = NoteFailed(
                                [backedUp EXCEPT !.review[filename] = "accepted"],
                                filename)
                           /\ queue' = AfterFileError(queue)
                           /\ UNCHANGED <<disk, appliedFiles>>
                   ELSE /\ hist' = [backedUp EXCEPT !.review[filename] =
                                      IF ReviewOnCancel THEN "accepted"
                                      ELSE "rejected"]
                        /\ UNCHANGED <<disk, appliedFiles>>
                        /\ queue' = Tail(queue)
                /\ UNCHANGED <<pc, wait, timeoutMs, res, cur>>
           ELSE /\ cur' = [filename |-> filename,
                           modifiedContent |-> modifiedContent]
                /\ safePrompt("apply", backedUp)
                /\ UNCHANGED <<queue, disk, appliedFiles>>
  /\ UNCHANGED <<env, feedback, autoFixes, restaged, commits, exitCode>>
  /\ UNCHANGED reviewVars

\* what interactiveReviewAndApply returns after its prompt
ReviewAccepted == IF res.cancelled THEN ReviewOnCancel ELSE res.answer = "yes"

\* after the review prompt: the file is written, or skipped
FileReviewed ==
  /\ pc = "apply"
  /\ wait = "none"
  /\ LET filename == cur.filename
         filePath == FilePath(filename)
         reviewed == [hist EXCEPT !.review[filename] =
                        IF ReviewAccepted THEN "accepted" ELSE "rejected"]
     IN IF ReviewWrites(ReviewAccepted)
        THEN /\ disk' = [disk EXCEPT ![filePath] = cur.modifiedContent]
             /\ appliedFiles' = Append(appliedFiles, filename)
             /\ hist' = NoteWrite(reviewed, filePath, "autoApplyAndRecommit", bak)
        ELSE /\ hist' = reviewed
             /\ UNCHANGED <<disk, appliedFiles>>
  /\ cur' = NoCur
  /\ queue' = Tail(queue)
  /\ pc' = "applyLoop"
  /\ UNCHANGED <<env, feedback, autoFixes, wait, timeoutMs, res, bak, restaged,
                 commits, exitCode>>
  /\ UNCHANGED reviewVars

\* the review prompt accepted the file and fs.writeFile(filePath,
\* modifiedContent) throws
ReviewedWriteFails ==
  /\ pc = "apply"
  /\ wait = "none"
  /\ ReviewWrites(ReviewAccepted)
  /\ hist' = NoteFailed([hist EXCEPT !.review[cur.filename] = "accepted"],
                        cur.filename)
  /\ cur' = NoCur
  /\ queue' = AfterFileError(queue)
  /\ pc' = "applyLoop"
  /\ UNCHANGED <<env, feedback, autoFixes, wait, timeoutMs, res, appliedFiles,
                 disk, bak, restaged, commits, exitCode>>
  /\ UNCHANGED reviewVars

Range(s) == {s[i] : i \in DOMAIN s}

\* appliedFiles.length === 0: "No files were modified", process.exit(1)
NoFilesModified ==
  /\ pc = "applyLoop"
  /\ queue = <<>>
  /\ appliedFiles = <<>>
  /\ Exit(1)
  /\ UNCHANGED <<env, feedback, autoFixes, wait, timeoutMs, res, queue, cur,
                 appliedFiles, disk, bak, restaged, commits, hist>>
  /\ UNCHANGED reviewVars

\* the applied files are re-staged and 'confirmRecommit' is asked
Restage ==
  /\ pc = "applyLoop"
  /\ queue = <<>>
  /\ appliedFiles # <<>>
  /\ restaged' = restaged \cup Range(appliedFiles)
  /\ safePrompt("confirmRecommit", hist)
  /\ UNCHANGED <<env, feedback, autoFixes, queue, cur, appliedFiles, disk,
                 bak, commits, exitCode>>
  /\ UNCHANGED reviewVars

\* git.commit(message) without options: the hooks of the repository run
gitCommitWithHooks(files, by) ==
  [files |-> files, noVerify |-> FALSE, by |-> by]

\* git.commit(message, ['--no-verify'])
gitCommit(files, by) == [files |-> files, noVerify |-> TRUE, by |-> by]

\* const shouldCommit = cancelled ? true : answers.confirmRecommit
shouldCommit == IF res.cancelled THEN TRUE ELSE res.answer = "yes"

RemoveBackups(b, names) ==
  [p \in DiskPaths |-> IF \E n \in names : FilePath(n) = p THEN Absent ELSE b[p]]

\* git.commit(commitMessage, ['--no-verify']) succeeds: the backups of the
\* applied files are unlinked, process.exit(0)
CommitSucceeds ==
  /\ pc = "confirmRecommit"
  /\ wait = "none"
  /\ shouldCommit
  /\ commits' = Append(commits, gitCommit(restaged, "autoApplyAndRecommit"))
  /\ bak' = RemoveBackups(bak, Range(appliedFiles))
  /\ hist' = [NoteEffect(hist, "commit") EXCEPT !.commitAttempted = TRUE]
  /\ Exit(0)
  /\ UNCHANGED <<env, feedback, autoFixes, wait, timeoutMs, res, queue, cur,
                 appliedFiles, disk, restaged>>
  /\ UNCHANGED reviewVars

\* git.commit throws: process.exit(1)
CommitFails ==
  /\ pc = "confirmRecommit"
  /\ wait = "none"
  /\ shouldCommit
  /\ hist' = [NoteEffect(hist, "commit") EXCEPT !.commitAttempted = TRUE]
  /\ Exit(1)
  /\ UNCHANGED <<env, feedback, autoFixes, wait, timeoutMs, res, queue, cur,
                 appliedFiles, disk, bak, restaged, commits>>
  /\ UNCHANGED reviewVars

\* the user declines the recommit: process.exit(0)
NotRecommitted ==
  /\ pc = "confirmRecommit"
  /\ wait = "none"
  /\ ~shouldCommit
  /\ Exit(0)
  /\ UNCHANGED <<env, feedback, autoFixes, wait, timeoutMs, res, queue, cur,
                 appliedFiles, disk, bak, restaged, commits, hist>>
  /\ UNCHANGED reviewVars

\* ----------------------------------------------------- applyToNewFiles
\* one file of the loop: a staged file that can be read gets its improved
\* content written to improvedPath; any other is passed over
NewFile ==
  /\ pc = "applyToNewFiles"
  /\ queue # <<>>
  /\ LET filename == Head(queue)
         filePath == FilePath(filename)
     IN IF IsStaged(filename) /\ disk[filePath] # Absent
        THEN /\ disk' = [disk EXCEPT ![ImprovedPath(filePath)] =
                           ModifiedContent(disk[filePath], autoFixes, filename)]
             /\ hist' = NoteWrite(hist, ImprovedPath(filePath),
                                  "applyToNewFiles", bak)
        ELSE UNCHANGED <<disk, hist>>
  /\ queue' = Tail(queue)
  /\ UNCHANGED <<env, feedback, autoFixes, pc, wait, timeoutMs, res, cur, appliedFiles,
                 bak, restaged, commits, exitCode>>
  /\ UNCHANGED reviewVars

\* the function returns and so does validateCommit: the process ends with
\* exit code 0
NewFilesDone ==
  /\ pc = "applyToNewFiles"
  /\ queue = <<>>
  /\ Exit(0)
  /\ UNCHANGED <<env, feedback, autoFixes, wait, timeoutMs, res, queue, cur,
                 appliedFiles, disk, bak, restaged, commits, hist>>
  /\ UNCHANGED reviewVars

\* ---------------------------------------------------- applyAISuggestions
\* the entry of applyAISuggestions: the grouping of the fixes by file
AiEntry ==
  /\ pc = "applyAISuggestions"
  /\ pc' = "aiLoop"
  /\ queue' = FileOrder(autoFixes)
  /\ UNCHANGED <<env, feedback, autoFixes, wait, timeoutMs, res, cur, appliedFiles,
                 disk, bak, restaged, commits, exitCode, hist>>
  /\ UNCHANGED reviewVars

\* one file of the loop: skipped when not staged or not found, else backed
\* up to '.ai-backup' and overwritten with its improved content
AiApplyFile ==
  /\ pc = "aiLoop"
  /\ queue # <<>>
  /\ LET filename == Head(queue)
         filePath == FilePath(filename)
     IN IF IsStaged(filename) /\ disk[filePath] # Absent
        THEN /\ bak' = WriteBackup(bak, filePath, disk[filePath])
             /\ disk' = [disk EXCEPT ![filePath] =
                           ModifiedContent(disk[filePath], autoFixes, filename)]
             /\ appliedFiles' = Append(appliedFiles, filename)
             /\ hist' = NoteWrite(NoteBackup(hist, filePath), filePath,
                                  "applyAISuggestions", bak')
        ELSE UNCHANGED <<bak, disk, appliedFiles, hist>>
  /\ queue' = Tail(queue)
  /\ UNCHANGED <<env, feedback, autoFixes, pc, wait, timeoutMs, res, cur, restaged,
                 commits, exitCode>>
  /\ UNCHANGED reviewVars

\* appliedFiles.length === 0: process.exit(1)
AiNoFilesModified ==
  /\ pc = "aiLoop"
  /\ queue = <<>>
  /\ appliedFiles = <<>>
  /\ Exit(1)
  /\ UNCHANGED <<env, feedback, autoFixes, wait, timeoutMs, res, queue, cur,
                 appliedFiles, disk, bak, restaged, commits, hist>>
  /\ UNCHANGED reviewVars

\* the applied files are re-staged and inquirer.prompt asks 'confirmCommit'
AiRestage ==
  /\ pc = "aiLoop"
  /\ queue = <<>>
  /\ appliedFiles # <<>>
  /\ restaged' = restaged \cup Range(appliedFiles)
  /\ inquirerPrompt("confirmCommit")
  /\ UNCHANGED <<env, feedback, autoFixes, queue, cur, appliedFiles, disk,
                 bak, commits, exitCode, hist>>
  /\ UNCHANGED reviewVars

\* confirmed, or the prompt force-closed: the backups are unlinked, exit 0
AiKeep ==
  /\ pc = "confirmCommit"
  /\ wait = "none"
  /\ res.cancelled \/ res.answer = "yes"
  /\ bak' = RemoveBackups(bak, Range(appliedFiles))
  /\ Exit(0)
  /\ UNCHANGED <<env, feedback, autoFixes, wait, timeoutMs, res, queue, cur,
                 appliedFiles, disk, restaged, commits, hist>>
  /\ UNCHANGED reviewVars

\* declined: every applied file is restored from its backup, the backup
\* unlinked, the file re-staged, exit 1
AiRestore ==
  /\ pc = "confirmCommit"
  /\ wait = "none"
  /\ ~res.cancelled /\ res.answer = "no"
  /\ disk' = [p \in DiskPaths |->
                IF \E n \in Range(appliedFiles) : FilePath(n) = p
                THEN bak[p] ELSE disk[p]]
  /\ bak' = RemoveBackups(bak, Range(appliedFiles))
  /\ Exit(1)
  /\ UNCHANGED <<env, feedback, autoFixes, wait, timeoutMs, res, queue, cur,
                 appliedFiles, restaged, commits, hist>>
  /\ UNCHANGED reviewVars

\* ------------------------------------------------------ guidedRecommit
\* git.status(): nothing to commit exits 0; only unstaged changes ask
\* 'stageAll'; otherwise the commit message is asked
GuidedEntry ==
  /\ pc = "guidedRecommit"
  /\ \E hasStaged, hasUnstaged \in BOOLEAN :
       IF ~hasStaged /\ ~hasUnstaged
       THEN /\ Exit(0)
            /\ UNCHANGED <<wait, timeoutMs, res, hist>>
       ELSE /\ UNCHANGED exitCode
            /\ IF hasUnstaged /\ ~hasStaged
               THEN safePrompt("stageAll", hist)
               ELSE safePrompt("message", hist)
  /\ UNCHANGED <<env, feedback, autoFixes, queue, cur, appliedFiles, disk,
                 bak, restaged, commits>>
  /\ UNCHANGED reviewVars

\* const stageAll = cancelled ? true : answers.stageAll
stageAll == IF res.cancelled THEN TRUE ELSE res.answer = "yes"

\* git.add(["./*"]) and the message prompt, or process.exit(1)
GuidedStageAll ==
  /\ pc = "stageAll"
  /\ wait = "none"
  /\ IF stageAll
     THEN /\ restaged' = StagedFiles
          /\ safePrompt("message", hist)
          /\ UNCHANGED exitCode
     ELSE /\ Exit(1)
          /\ UNCHANGED <<restaged, wait, timeoutMs, res, hist>>
  /\ UNCHANGED <<env, feedback, autoFixes, queue, cur, appliedFiles, disk,
                 bak, commits>>
  /\ UNCHANGED reviewVars

\* git.commit(commitMessage, ['--no-verify']) with the message typed, or
\* the default one when the prompt was cancelled or left empty;
\* process.exit(0)
GuidedCommit ==
  /\ pc = "message"
  /\ wait = "none"
  /\ commits' = Append(commits, gitCommit(StagedFiles, "guidedRecommit"))
  /\ Exit(0)
  /\ UNCHANGED <<env, feedback, autoFixes, wait, timeoutMs, res, queue, cur,
                 appliedFiles, disk, bak, restaged, hist>>
  /\ UNCHANGED reviewVars

\* A git call of guidedRecommit throws. A message that reads as a
\* cancellation leads to the fallback commit (exit 0, or 1 when it fails
\* too); any other error exits 1.
GuidedError ==
  /\ pc \in {"guidedRecommit", "stageAll", "message"}
  /\ wait = "none"
  /\ \E readsAsCancelled, innerFails \in BOOLEAN :
       IF readsAsCancelled /\ ~innerFails
       THEN /\ commits' = Append(commits, gitCommit(StagedFiles, "fallback"))
            /\ Exit(0)
       ELSE /\ UNCHANGED commits
            /\ Exit(1)
  /\ UNCHANGED <<env, feedback, autoFixes, wait, timeoutMs, res, queue, cur,
                 appliedFiles, disk, bak, restaged, hist>>
  /\ UNCHANGED reviewVars

\* ------------------------------------------------------ specifications
NoHist ==
  [cancelled |-> {}, answered |-> {}, late |-> {},
   backups |-> [p \in DiskPaths |-> 0], writes |-> {},
   review |-> [p \in DiskPaths |-> "none"], commitAttempted |-> FALSE,
   failed |-> {}, lateEvents |-> {}]

InitFlow(entry, envs, args) ==
  /\ env \in envs
  /\ feedback = [check |-> FALSE, critical |-> FALSE, issues |-> FALSE]
  /\ autoFixes \in args
  /\ pc \in entry
  /\ wait = "none"
  /\ timeoutMs = 0
  /\ res = NoAnswer
  /\ queue = <<>>
  /\ cur = NoCur
  /\ appliedFiles = <<>>
  /\ disk = InitialDisk
  /\ bak = [p \in DiskPaths |-> Absent]
  /\ restaged = {}
  /\ commits = <<>>
  /\ exitCode = -1
  /\ hist = NoHist

\* the flow variables while a specification of getCopilotReview runs
IdleEnv ==
  [onCancel |-> "", stdinTTY |-> FALSE, stdoutTTY |-> FALSE,
   forcePrompt |-> FALSE, autoSelect |-> "", hasToken |-> TRUE,
   promptTimeoutMs |-> "", optionalMode |-> FALSE,
   skipDirectiveRegex |-> ""]

InitFlowIdle == InitFlow({"idle"}, {IdleEnv}, {<<>>})


\* ------------------------------------------------------ SpecHunk actions
\* The lines of SpecHunk carry no rule match: only the hunk parsing runs.
HunkInput == {l \in DiffLines : l.m = {}}

\* One iteration of lines.forEach of Step 1.
MapLine(l) ==
  /\ phase = "hunks"
  /\ index < MaxDiffLines
  /\ index' = index + 1
  /\ currentStagedFile' = NextStagedFile(l)
  /\ currentLineNumber' = NextLineNumber(l)
  /\ stagedChanges' = NextStagedChanges(l)
  /\ Track(l)
  /\ UNCHANGED <<phase, modifiedFiles, toScan, currentFile, issues, fileChanges>>
  /\ UNCHANGED <<filterVars, flowVars>>

\* if (line.startsWith('diff --git'))
HunkDiffGit == \E l \in HunkInput : StartsWithDiffGit(l) /\ MapLine(l)

\* else if (line.startsWith('@@'))
HunkHeader ==
  \E l \in HunkInput : ~StartsWithDiffGit(l) /\ StartsWithAtAt(l) /\ MapLine(l)

\* else if (line.startsWith('+') && !line.startsWith('+++'))
HunkAddition ==
  \E l \in HunkInput :
    ~StartsWithDiffGit(l) /\ ~StartsWithAtAt(l) /\ HunkIsAddition(l) /\ MapLine(l)

\* else if (!line.startsWith('-') && ...)
HunkContext ==
  \E l \in HunkInput :
    /\ ~StartsWithDiffGit(l) /\ ~StartsWithAtAt(l) /\ ~HunkIsAddition(l)
    /\ HunkIsContext(l)
    /\ MapLine(l)

\* no branch taken: '-', '---' and '+++' lines
HunkSkipped ==
  \E l \in HunkInput :
    /\ ~StartsWithDiffGit(l) /\ ~StartsWithAtAt(l) /\ ~HunkIsAddition(l)
    /\ ~HunkIsContext(l)
    /\ MapLine(l)

InitParser ==
  /\ index = 0
  /\ currentStagedFile = NoFile
  /\ currentLineNumber = 0
  /\ stagedChanges = [f \in AllFiles |-> {}]
  /\ modifiedFiles = {}
  /\ toScan = {}
  /\ currentFile = NoFile
  /\ issues = {}
  /\ fileChanges = {}

InitTrack ==
  /\ wf = TRUE
  /\ sect = "start"
  /\ prev = "none"
  /\ truePos = 0
  /\ trueMap = [f \in AllFiles |-> {}]
  /\ blockNew = 0
  /\ seen = {}
  /\ blockFile = NoFile
  /\ rec = NoRec
  /\ read = 0
  /\ fate = NoFate

InitHunk == phase = "hunks" /\ InitParser /\ InitTrack /\ InitFlowIdle

NextHunk ==
  \/ HunkDiffGit
  \/ HunkHeader
  \/ HunkAddition
  \/ HunkContext
  \/ HunkSkipped

SpecHunk == InitHunk /\ [][NextHunk]_vars

\* ------------------------------------------------------ SpecFilter
\* validateCommit hands getCopilotReview the diff of git diff --cached
\* passed through filterMeaningfulChanges. The raw diff is read line by
\* line: its history is kept as in SpecHunk, and the lines the filter
\* keeps go through the first pass, the hunk parsing and the diff-line
\* pass.
MaxRawLines == 9

\* a file EXCLUDED_FILES names, beside the source files
ExcludedFile == "package-lock.json"

\* A line of the raw diff: the line, whether its text contains a name of
\* EXCLUDED_FILES (the path in a header of package-lock.json, '.env' in
\* 'process.env.PORT'), and whether the text after its marker is empty or
\* starts a comment.
RawLine(l, mentions, blank) == [l |-> l, mentions |-> mentions, blank |-> blank]

RawLines ==
  {RawLine(Line("diff", f, 0, {}), f = ExcludedFile, FALSE) :
     f \in Files \cup {ExcludedFile}}
  \cup {RawLine(Line(k, NoFile, 0, {}), x, FALSE) :
          k \in {"old", "new"}, x \in BOOLEAN}
  \cup {RawLine(Line(k, NoFile, 0, {}), FALSE, FALSE) : k \in {"hdr", "ctx", "nonl"}}
  \cup {RawLine(Line("hunk", NoFile, c, {}), FALSE, FALSE) : c \in 1..MaxStart}
  \cup {RawLine(Line("del", NoFile, 0, {}), FALSE, b) : b \in BOOLEAN}
  \cup {RawLine(Line("add", NoFile, 0, mm), x, FALSE) :
          mm \in {{}, {"emptyCatch"}}, x \in BOOLEAN}
  \cup {RawLine(Line("add", NoFile, 0, {}), FALSE, TRUE)}

\* git writes '+++ b/<path>' in every block and '--- a/<path>' or
\* '--- /dev/null': the path of an excluded file is in the former and may
\* be in the latter
HeaderNamesBlock(r) ==
  /\ r.l.k = "new" => (r.mentions <=> blockFile = ExcludedFile)
  /\ r.l.k = "old" => (r.mentions => blockFile = ExcludedFile)

\* a filter that passes every line on
filterKeepsAll(r) == TRUE

\* the callback of lines.filter: false for a line that contains an
\* excluded name; a '+' or '-' line is kept unless its content is empty
\* or a comment ('---' and '+++' lines come here too); any other line is
\* kept when it starts with '@@', 'diff --git' or 'index'
filterMeaningfulChanges(r) ==
  IF r.mentions THEN FALSE
  ELSE IF StartsWithPlus(r.l) \/ StartsWithMinus(r.l) THEN ~r.blank
  ELSE StartsWithAtAt(r.l) \/ StartsWithDiffGit(r.l) \/ r.l.k = "hdr"

\* git diff --cached prints a well-formed diff: the next raw line
RawInput(r) ==
  /\ phase = "filter"
  /\ read < MaxRawLines
  /\ Allowed(r.l)
  /\ HeaderNamesBlock(r)
  /\ read' = read + 1
  /\ Track(r.l)
  /\ fate' = [k |-> r.l.k, block |-> blockFile', blank |-> r.blank,
              mentions |-> r.mentions, kept |-> filterMeaningfulChanges(r)]

\* the line is kept and getCopilotReview reads it in its three loops
FilterKeeps ==
  \E r \in RawLines :
    /\ filterMeaningfulChanges(r)
    /\ modifiedFiles' = NextModifiedFiles(r.l)
    /\ currentStagedFile' = NextStagedFile(r.l)
    /\ currentLineNumber' = NextLineNumber(r.l)
    /\ stagedChanges' = NextStagedChanges(r.l)
    /\ currentFile' = NextCurrentFile(r.l)
    /\ issues' = issues \cup LegacyIssues(r.l, index)
    /\ fileChanges' = fileChanges \cup LegacyFixes(r.l, index)
    /\ index' = index + 1
    /\ RawInput(r)
    /\ UNCHANGED <<phase, toScan>>
    /\ UNCHANGED flowVars

\* the line is dropped: getCopilotReview never sees it
FilterDrops ==
  \E r \in RawLines :
    /\ ~filterMeaningfulChanges(r)
    /\ UNCHANGED <<phase, index, currentStagedFile, currentLineNumber,
                   stagedChanges, modifiedFiles, toScan, currentFile, issues,
                   fileChanges>>
    /\ RawInput(r)
    /\ UNCHANGED flowVars

InitFilter == phase = "filter" /\ InitParser /\ InitTrack /\ InitFlowIdle

NextFilter ==
  \/ FilterKeeps
  \/ FilterDrops

SpecFilter == InitFilter /\ [][NextFilter]_vars

\* ---------------------------------------------------- SpecReview actions
\* One iteration of the loops over the diff lines: the first pass
\* (modifiedFiles), the hunk parsing and the diff-line pass read the same
\* lines and share no variable, so one step reads line `index` for all three.
ReadLine ==
  /\ phase = "diff"
  /\ index < MaxReviewLines
  /\ \E l \in DiffLines :
       /\ modifiedFiles' = NextModifiedFiles(l)
       /\ currentStagedFile' = NextStagedFile(l)
       /\ currentLineNumber' = NextLineNumber(l)
       /\ stagedChanges' = NextStagedChanges(l)
       /\ currentFile' = NextCurrentFile(l)
       /\ issues' = issues \cup LegacyIssues(l, index)
       /\ fileChanges' = fileChanges \cup LegacyFixes(l, index)
  /\ index' = index + 1
  /\ UNCHANGED <<phase, toScan>>
  /\ UNCHANGED <<trackVars, filterVars, flowVars>>

\* The diff text ends; the whole-file scan starts over modifiedFiles.
EndOfDiff ==
  /\ phase = "diff"
  /\ index >= 1
  /\ phase' = "scan"
  /\ toScan' = modifiedFiles
  /\ UNCHANGED <<index, currentStagedFile, currentLineNumber, stagedChanges,
                 modifiedFiles, currentFile, issues, fileChanges>>
  /\ UNCHANGED <<trackVars, filterVars, flowVars>>

\* Step 2 for one modified file: when the file exists its lines are read
\* and every rule that flags a line yields an issue, and a fix on a staged
\* line of critical or high severity.
ScanFile ==
  /\ phase = "scan"
  /\ \E f \in toScan :
       /\ toScan' = toScan \ {f}
       /\ \E exists \in BOOLEAN :
            IF exists
            THEN \E n \in 1..MaxFileLines :
                   \E content \in [1..n -> SUBSET Rules] :
                     /\ issues' = issues \cup ScanIssues(f, content)
                     /\ fileChanges' = fileChanges \cup ScanFixes(f, content)
            ELSE UNCHANGED <<issues, fileChanges>>
  /\ UNCHANGED <<phase, index, currentStagedFile, currentLineNumber,
                 stagedChanges, modifiedFiles, currentFile>>
  /\ UNCHANGED <<trackVars, filterVars, flowVars>>

\* The feedback text is built from issues and fileChanges and returned.
ReturnFeedback ==
  /\ phase = "scan"
  /\ toScan = {}
  /\ phase' = "done"
  /\ UNCHANGED <<index, currentStagedFile, currentLineNumber, stagedChanges,
                 modifiedFiles, toScan, currentFile, issues, fileChanges>>
  /\ UNCHANGED <<trackVars, filterVars, flowVars>>

InitReview == phase = "diff" /\ InitParser /\ InitTrack /\ InitFlowIdle

NextReview ==
  \/ ReadLine
  \/ EndOfDiff
  \/ ScanFile
  \/ ReturnFeedback

SpecReview == InitReview /\ [][NextReview]_vars

\* validateCommit, as the hook runs it
Init ==
  /\ phase = "idle"
  /\ InitParser
  /\ InitTrack
  /\ InitFlow({"validateCommit"}, Envs, {<<>>})

Next ==
  \/ NoStagedChanges
  \/ ValidationError
  \/ SkipDirective
  \/ OnlySystemFiles
  \/ CopilotReview
  \/ CopilotUnavailable
  \/ NoToken
  \/ LocalNoIssues
  \/ LocalIssues
  \/ LocalDecided
  \/ OpenErrorLocations
  \/ OpenMoreDone
  \/ CommitAllowed
  \/ EnhancedWorkflow
  \/ Decide
  \/ AutoApplyEntry
  \/ ApplyNotStaged
  \/ ApplyReadFails
  \/ ApplyBackupFails
  \/ ApplyFile
  \/ FileReviewed
  \/ ReviewedWriteFails
  \/ NoFilesModified
  \/ Restage
  \/ CommitSucceeds
  \/ CommitFails
  \/ NotRecommitted
  \/ NewFile
  \/ NewFilesDone
  \/ UserAnswers
  \/ TimerFires
  \/ PromptClosed

Spec == Init /\ [][Next]_vars

\* validateCommit in an interactive terminal with the default
\* configuration, a documented skip directive in one staged file.
SkipEnvs ==
  {e \in Envs : /\ e.stdinTTY /\ e.stdoutTTY /\ ~e.forcePrompt
                /\ e.autoSelect = "" /\ e.promptTimeoutMs = ""
                /\ e.onCancel = "" /\ ~e.optionalMode
                /\ e.skipDirectiveRegex = ""}

InitSkip ==
  /\ phase = "idle"
  /\ InitParser
  /\ InitTrack
  /\ env \in SkipEnvs
  /\ feedback = [check |-> FALSE, critical |-> FALSE, issues |-> FALSE]
  /\ autoFixes = <<>>
  /\ pc = "validateCommit"
  /\ wait = "none"
  /\ timeoutMs = 0
  /\ res = NoAnswer
  /\ queue = <<>>
  /\ cur = NoCur
  /\ appliedFiles = <<>>
  /\ disk \in DirectiveDisks
  /\ bak = [p \in DiskPaths |-> Absent]
  /\ restaged = {}
  /\ commits = <<>>
  /\ exitCode = -1
  /\ hist = NoHist

SpecSkip == InitSkip /\ [][Next]_vars

\* autoApplyAndRecommit and applyAISuggestions called with any list of
\* fixes; validateCommit calls the second from its legacy branch only,
\* which follows a return.
ApplyArgs == FixLists \cup {<<FallbackFix>>}

ApplyEnvs ==
  {e \in Envs : e.hasToken /\ ~e.optionalMode /\ e.skipDirectiveRegex = ""}

InitApply ==
  /\ phase = "idle"
  /\ InitParser
  /\ InitTrack
  /\ \/ InitFlow({"autoApplyAndRecommit", "applyAISuggestions"}, ApplyEnvs,
                 ApplyArgs)
     \/ InitFlow({"guidedRecommit"}, ApplyEnvs, {<<>>})

NextApply ==
  \/ AutoApplyEntry
  \/ ApplyNotStaged
  \/ ApplyReadFails
  \/ ApplyBackupFails
  \/ ApplyFile
  \/ FileReviewed
  \/ ReviewedWriteFails
  \/ NoFilesModified
  \/ Restage
  \/ CommitSucceeds
  \/ CommitFails
  \/ NotRecommitted
  \/ AiEntry
  \/ AiApplyFile
  \/ AiNoFilesModified
  \/ AiRestage
  \/ AiKeep
  \/ AiRestore
  \/ GuidedEntry
  \/ GuidedStageAll
  \/ GuidedCommit
  \/ GuidedError
  \/ UserAnswers
  \/ TimerFires
  \/ PromptClosed

SpecApply == InitApply /\ [][NextApply]_vars

\* ------------------------------------------------------ SpecSuffix
\* The three apply functions called with any list of fixes in a working
\* tree where src/a.js and b.js are staged and a file a.js, not staged,
\* may lie at the root beside them.
SuffixDisk == [InitialDisk EXCEPT !["a.js"] = <<CatchText>>]

SuffixEnvs ==
  {e \in ApplyEnvs : /\ e.autoSelect = ""
                     /\ ~e.forcePrompt
                     /\ e.promptTimeoutMs = ""
                     /\ e.stdinTTY = e.stdoutTTY}

InitSuffix ==
  /\ phase = "idle"
  /\ InitParser
  /\ InitTrack
  /\ env \in SuffixEnvs
  /\ feedback = [check |-> FALSE, critical |-> FALSE, issues |-> TRUE]
  /\ autoFixes \in ApplyArgs
  /\ pc \in {"autoApplyAndRecommit", "applyAISuggestions", "applyToNewFiles"}
  /\ wait = "none"
  /\ timeoutMs = 0
  /\ res = NoAnswer
  /\ queue = (IF pc = "applyToNewFiles" THEN FileOrder(autoFixes) ELSE <<>>)
  /\ cur = NoCur
  /\ appliedFiles = <<>>
  /\ disk \in {InitialDisk, SuffixDisk}
  /\ bak = [p \in DiskPaths |-> Absent]
  /\ restaged = {}
  /\ commits = <<>>
  /\ exitCode = -1
  /\ hist = NoHist

NextSuffix ==
  \/ AutoApplyEntry
  \/ ApplyNotStaged
  \/ ApplyReadFails
  \/ ApplyBackupFails
  \/ ApplyFile
  \/ FileReviewed
  \/ ReviewedWriteFails
  \/ NoFilesModified
  \/ Restage
  \/ CommitSucceeds
  \/ CommitFails
  \/ NotRecommitted
  \/ AiEntry
  \/ AiApplyFile
  \/ AiNoFilesModified
  \/ AiRestage
  \/ AiKeep
  \/ AiRestore
  \/ NewFile
  \/ NewFilesDone
  \/ UserAnswers
  \/ TimerFires
  \/ PromptClosed

SpecSuffix == InitSuffix /\ [][NextSuffix]_vars

\* ------------------------------------------------------ SpecPrompt
\* guidedRecommit with its two prompts, and the events that lose a race:
\* the answer to a prompt that has timed out, the timer of a prompt that
\* has been answered.
InitPrompt ==
  /\ phase = "idle"
  /\ InitParser
  /\ InitTrack
  /\ InitFlow({"guidedRecommit"}, ApplyEnvs, {<<>>})

NextPrompt ==
  \/ GuidedEntry
  \/ GuidedStageAll
  \/ GuidedCommit
  \/ GuidedError
  \/ UserAnswers
  \/ TimerFires
  \/ PromptClosed
  \/ LateAnswer
  \/ LateTimer

SpecPrompt == InitPrompt /\ [][NextPrompt]_vars

\* ------------------------------------------------------ SpecFix
\* The fix pipeline on the staged file b.js: getCopilotReview builds its
\* fix records from the file and the staged lines, the feedback text is
\* parsed back, and autoApplyAndRecommit applies the result; or
\* autoApplyAndRecommit is called with a selection of the records of the
\* whole-file scan as they are.
FixFile == "b.js"

FixContents ==
  {JoinLines(fileLines) :
     fileLines \in UNION {[1..n -> {<<t>> : t \in TextPool}] : n \in 1..MaxFileLines}}

\* the sub-sequences of a sequence
SubSequences(s) ==
  {SelectSeq([i \in DOMAIN s |-> [i |-> i, v |-> s[i]]],
             LAMBDA e : e.i \in keep) : keep \in SUBSET DOMAIN s}

DirectArgs(content, staged) ==
  LET fileLines == SplitLines(content)
      scanned == ScanChanges(FixFile, fileLines, Len(fileLines), staged)
  IN {[i \in DOMAIN sub |-> AsFix(sub[i].v)] : sub \in SubSequences(scanned)}
       \cup {<<FixFor("a.js")>>, <<FixFor("index.js")>>}

FixEnv ==
  [onCancel |-> "", stdinTTY |-> TRUE, stdoutTTY |-> TRUE,
   forcePrompt |-> FALSE, autoSelect |-> "", hasToken |-> TRUE,
   promptTimeoutMs |-> "", optionalMode |-> FALSE,
   skipDirectiveRegex |-> ""]

\* getCopilotReview, parseAutoApplicableFixes and the call of
\* autoApplyAndRecommit with the fixes parsed
SynthesizeFixes ==
  /\ pc = "getCopilotReview"
  /\ fileChanges' = EmittedChanges(FixFile, disk[FixFile], stagedChanges[FixFile])
  /\ autoFixes' = parseAutoApplicableFixes(AutoFixSection(FixFile, fileChanges'))
  /\ pc' = "autoApplyAndRecommit"
  /\ UNCHANGED <<phase, index, currentStagedFile, currentLineNumber,
                 stagedChanges, modifiedFiles, toScan, currentFile, issues,
                 wf, sect, prev, truePos, trueMap, blockNew, seen,
                 blockFile, rec>>
  /\ UNCHANGED filterVars
  /\ UNCHANGED <<env, feedback, wait, timeoutMs, res, queue, cur,
                 appliedFiles, disk, bak, restaged, commits, exitCode, hist>>

InitFix ==
  /\ phase = "idle"
  /\ index = 0
  /\ currentStagedFile = NoFile
  /\ currentLineNumber = 0
  /\ modifiedFiles = {FixFile}
  /\ toScan = {}
  /\ currentFile = NoFile
  /\ issues = {}
  /\ fileChanges = <<>>
  /\ InitTrack
  /\ env = FixEnv
  /\ feedback = [check |-> FALSE, critical |-> TRUE, issues |-> TRUE]
  /\ disk \in {[InitialDisk EXCEPT ![FixFile] = c] : c \in FixContents}
  /\ stagedChanges \in
       {[f \in AllFiles |-> IF f = FixFile THEN s ELSE {}] :
          s \in SUBSET (1..Len(SplitLines(disk[FixFile]))) \ {{}}}
  /\ \/ pc = "getCopilotReview" /\ autoFixes = <<>>
     \/ /\ pc = "autoApplyAndRecommit"
        /\ autoFixes \in DirectArgs(disk[FixFile], stagedChanges[FixFile])
  /\ wait = "none"
  /\ timeoutMs = 0
  /\ res = NoAnswer
  /\ queue = <<>>
  /\ cur = NoCur
  /\ appliedFiles = <<>>
  /\ bak = [p \in DiskPaths |-> Absent]
  /\ restaged = {}
  /\ commits = <<>>
  /\ exitCode = -1
  /\ hist = NoHist

NextFix ==
  \/ SynthesizeFixes
  \/ AutoApplyEntry
  \/ ApplyNotStaged
  \/ ApplyReadFails
  \/ ApplyBackupFails
  \/ ApplyFile
  \/ FileReviewed
  \/ ReviewedWriteFails
  \/ NoFilesModified
  \/ Restage
  \/ CommitSucceeds
  \/ CommitFails
  \/ NotRecommitted
  \/ UserAnswers
  \/ TimerFires
  \/ PromptClosed

SpecFix == InitFix /\ [][NextFix]_vars


\* ================================================================ claims

\* C1: every fix getCopilotReview emits, from the whole-file scan or from
\* the diff-line pass, names a line number that is in the staged-change map
\* of its file.
C1_FixOnStagedLine ==
  phase = "done" =>
    \A fx \in fileChanges : fx.line \in stagedChanges[fx.file]

\* C7 as claimed: every line number the hunk parsing records comes from an
\* addition line ('+', not '+++') that lies inside a hunk of the block of
\* the file it is recorded for.
C7_RecordedInsideHunk ==
  rec.k # "none" =>
    /\ rec.k = "add"
    /\ rec.f = rec.block
    /\ rec.hunk

\* C7 amended: every line number the hunk parsing records comes from an
\* addition line ('+', not '+++') read after the 'diff --git' line of the
\* file it is recorded for, never from a removal, context, header or marker
\* line; in a well-formed diff that line lies inside a hunk, while an
\* addition read before any valid hunk header of its block is recorded too.
C7_RecordedFromAddition ==
  rec.k # "none" =>
    /\ rec.k = "add"
    /\ rec.f = rec.block
    /\ rec.f \in Files
    /\ (wf => rec.hunk)

\* A well-formed diff in which an addition was recorded inside a hunk and a
\* removal or context line was then read without recording anything.
C7_Witness ==
  /\ wf
  /\ rec.k = "add"
  /\ rec.hunk
  /\ prev \in {"del", "ctx"}
  /\ stagedChanges[rec.f] = {rec.n}

\* C8: for a well-formed unified diff the numbers recorded for a file are
\* the 1-based new-file positions of its added lines.
C8_NewFilePositions ==
  wf => \A f \in Files : stagedChanges[f] = trueMap[f]

\* C9: in a file block with no valid hunk header the additions are numbered
\* by a counter that starts at 1 for that block, whatever the counter held
\* when the block began and whatever header lines the block has.
C9_CounterRestartsPerFile ==
  (rec.k # "none" /\ ~rec.hunk) => rec.n = rec.expect

\* C2: when autoApplyAndRecommit exits, a file whose review was rejected
\* has the content it had when the function was entered and was not passed
\* to git add.
C2_RejectedFileUntouched ==
  pc = "exited" =>
    \A f \in DiskPaths :
      hist.review[f] = "rejected" =>
        /\ disk[FilePath(f)] = InitialDisk[FilePath(f)]
        /\ f \notin restaged

\* A run that ended with one file rejected, whose improved content differed
\* from what it holds, and another file accepted and overwritten.
C2_Witness ==
  /\ pc = "exited"
  /\ \E f, g \in StagedFiles :
       /\ hist.review[f] = "rejected"
       /\ ModifiedContent(InitialDisk[f], autoFixes, f) # InitialDisk[f]
       /\ hist.review[g] = "accepted"
       /\ disk[g] # InitialDisk[g]

\* C3: whenever autoApplyAndRecommit or applyAISuggestions overwrites a
\* source file with improved content, the backup file beside it already
\* holds the content the write replaces, and no file gets more than one
\* backup in a run.
C3_BackupBeforeOverwrite ==
  /\ \A w \in hist.writes :
       w.fn \in {"autoApplyAndRecommit", "applyAISuggestions"} =>
         w.backed /\ hist.backups[w.path] = 1
  /\ \A p \in DiskPaths : hist.backups[p] <= 1

\* Both staged files were overwritten by one run of an apply function.
C3_Witness ==
  /\ pc = "exited"
  /\ \A f \in StagedFiles :
       /\ disk[f] # InitialDisk[f]
       /\ \E w \in hist.writes : w.path = f /\ w.backed

\* C4: with the policy 'cancel' or unset, once one of the three
\* confirmation prompts has timed out or been cancelled, no file is written
\* and no commit is made afterwards, and the process exits non-zero.
C4_CancelStopsRun ==
  (DEFAULT_ON_CANCEL = "cancel" /\ hist.cancelled \cap ConfirmationSites # {}) =>
    /\ hist.late = {}
    /\ (pc = "exited" => exitCode # 0)

\* C5: with the policy 'skip', once a confirmation prompt has timed out, no
\* file is modified afterwards and the process exits 0.
C5_SkipAllowsCommit ==
  (DEFAULT_ON_CANCEL = "skip" /\ hist.cancelled \cap ConfirmationSites # {}) =>
    /\ "write" \notin hist.late
    /\ (pc = "exited" => exitCode = 0)

\* C6: with the policy 'auto-apply', when the session prompt timed out or
\* was cancelled, no later prompt was answered and no read or write of a
\* file failed, at exit every parsed fix of a staged file has been applied
\* to its file, the file has been re-staged, and a commit has been
\* attempted.
C6_AutoApplyOnTimeout ==
  (/\ DEFAULT_ON_CANCEL = "auto-apply"
   /\ pc = "exited"
   /\ "enhancedDecision" \in hist.cancelled
   /\ hist.answered \cap {"apply", "confirmRecommit"} = {}
   /\ hist.failed = {}) =>
    \A i \in DOMAIN autoFixes :
      autoFixes[i].filename \in StagedFiles =>
        /\ disk[FilePath(autoFixes[i].filename)] =
             ModifiedContent(InitialDisk[FilePath(autoFixes[i].filename)],
                             autoFixes, autoFixes[i].filename)
        /\ autoFixes[i].filename \in restaged
        /\ hist.commitAttempted

\* The session prompt and the two later prompts timed out in a terminal,
\* both staged files were improved and the commit was made.
C6_Witness ==
  /\ DEFAULT_ON_CANCEL = "auto-apply"
  /\ pc = "exited"
  /\ {"enhancedDecision", "apply", "confirmRecommit"} \subseteq hist.cancelled
  /\ hist.answered \cap ConfirmationSites = {}
  /\ env.stdinTTY /\ env.stdoutTTY
  /\ \A f \in StagedFiles : disk[f] # InitialDisk[f] /\ f \in restaged
  /\ Len(commits) = 1

\* C10: in a session where stdin or stdout is no terminal, AI_FORCE_PROMPT
\* is not set and AI_AUTO_SELECT is empty, the program never waits for
\* input.
C10_NeverWaitsNonInteractive ==
  (needsTtyFallback /\ ~env.forcePrompt /\ env.autoSelect = "") =>
    wait = "none"

\* C11: with AI_AUTO_SELECT set, the session decision, every per-file
\* review and the recommit confirmation never wait, and every per-file
\* review is accepted exactly when the value is a truthy one, whatever the
\* terminal and AI_DEFAULT_ON_CANCEL are.
C11_AutoSelectDecides ==
  env.autoSelect # "" =>
    /\ wait \notin ConfirmationSites
    /\ \A f \in DiskPaths :
         hist.review[f] # "none" =>
           (hist.review[f] = "accepted" <=> AutoSelectTruthy)

\* C12: with AI_AUTO_SELECT=5 the session decision resolves to the choice
\* 'Skip validation', no file is written and the process exits 0.
C12_SelectFiveSkips ==
  (env.autoSelect = "5" /\ "enhancedDecision" \in hist.answered) =>
    /\ res.answer = "skip"
    /\ hist.writes = {}
    /\ (pc = "exited" => exitCode = 0)

\* C13: while the program waits in one of the three confirmation prompts,
\* the timer it races is the one AI_PROMPT_TIMEOUT_MS configures: its delay
\* is the configured value, and with the value 0 there is no timer.
C13_WaitBoundedByConfiguration ==
  wait \in ConfirmationSites => timeoutMs = ConfiguredTimeoutMs

\* C14: in optional mode (AI_OPTIONAL_MODE=true or CI=true) validateCommit
\* never blocks the commit: whatever path the run takes, the process exits
\* with code 0.
C14_OptionalModeNeverBlocks ==
  (isOptionalMode /\ pc = "exited") => exitCode = 0

\* C15: when a staged file contains one of the documented skip directives,
\* validateCommit goes no further than its early exits: no analysis result,
\* no prompt, no file written, and it ends with exit code 0 (unless git
\* itself failed, which a run outside optional mode reports with code 1).
C15_DocumentedDirectiveSkips ==
  (\E f \in StagedFiles : \E i \in DOMAIN disk[f] :
     disk[f][i] \in DocumentedDirectives) =>
    /\ pc \in {"validateCommit", "exited"}
    /\ autoFixes = <<>>
    /\ ~feedback.check /\ ~feedback.critical
    /\ wait = "none" /\ hist.answered = {} /\ hist.cancelled = {}
    /\ hist.writes = {}
    /\ (pc = "exited" => (exitCode = 0 \/ (exitCode = 1 /\ ~isOptionalMode)))

\* C16: when a run that went through autoApplyAndRecommit has ended, no
\* backup file it wrote is left on disk: neither for an accepted and
\* committed file, nor for a rejected one, nor when nothing was committed.
C16_NoBackupOutlivesCycle ==
  pc = "exited" => \A p \in DiskPaths : bak[p] = Absent

\* C17: after autoApplyAndRecommit wrote a file for which it had one fix,
\* a fix naming line L and that line's text, the file read again is the
\* original with line L replaced by the replacement text: the replacement
\* stands where line L stood and every other line, one with the same text
\* as line L included, is as it was.
C17_FixChangesItsOwnLine ==
  LET fixes == FixesOf(autoFixes, FixFile)
      fileLines == SplitLines(bak[FixFile])
  IN (/\ \E w \in hist.writes : w.path = FixFile
      /\ bak[FixFile] # Absent
      /\ Len(fixes) = 1
      /\ TargetsLine(fixes[1], fileLines)) =>
       SplitLines(disk[FixFile]) =
         ReplaceLine(fileLines, fixes[1].line, fixes[1].improved)

C19_DeclarationBeforeUse ==
  LET now == SplitLines(disk[FixFile])
  IN (/\ \E w \in hist.writes : w.path = FixFile
      /\ \E i \in DOMAIN fileChanges :
           fileChanges[i].improved = <<DeclText, NL>> \o fileChanges[i].original) =>
       \E k \in 1..(Len(now) - 1) :
         now[k] = <<DeclText>> /\ now[k + 1] = <<UseText>>

\* C20: every fix record getCopilotReview emits has a replacement text that
\* differs from the original text, and a use of an identifier the file
\* declares yields no fix record.
C20_EmittedFixesChangeText ==
  /\ \A i \in DOMAIN fileChanges :
       fileChanges[i].improved # fileChanges[i].original
  /\ (pc = "autoApplyAndRecommit" /\ DeclaresResults(SplitLines(disk[FixFile]))) =>
       \A i \in DOMAIN fileChanges : fileChanges[i].original # <<UseText>>

\* C21: getCopilotReview emits at most one fix record per issue: the fix
\* list of the file has no more records than there are pairs of a staged
\* line and a critical or high rule matching it.
C21_OneFixPerIssue ==
  LET fileLines == SplitLines(disk[FixFile])
      RECURSIVE StagedMatches(_)
      StagedMatches(upTo) ==
        IF upTo = 0 THEN 0
        ELSE StagedMatches(upTo - 1)
               + (IF upTo \in stagedChanges[FixFile]
                  THEN Len(MatchingPatterns(fileLines[upTo])) ELSE 0)
  IN (fileChanges # <<>> /\ hist.writes = {}) =>
       Len(fileChanges) <= StagedMatches(Len(fileLines))

\* C22: in the whole-file scan every rule match yields an issue that is
\* marked staged exactly when its line is in the staged-change map of the
\* file, and the match yields a fix exactly when the line is in the map and
\* the rule's severity is critical or high: a match on a line outside the
\* map, or of medium or low severity, yields an issue and no fix.
C22_ScanFixIffStagedAndActionable ==
  /\ \A i \in issues :
       i.pass = "scan" =>
         /\ i.staged <=> i.line \in stagedChanges[i.file]
         /\ Fix(i.file, i.line, i.rule, "scan") \in fileChanges
              <=> (i.line \in stagedChanges[i.file]
                   /\ Severity(i.rule) \in {"critical", "high"})
  /\ \A fx \in fileChanges :
       fx.pass = "scan" =>
         \E i \in issues :
           /\ i.pass = "scan" /\ i.file = fx.file
           /\ i.line = fx.line /\ i.rule = fx.rule

\* C22 witness: the scan flagged a line outside the staged-change map with a
\* high-severity rule and a staged line with a medium-severity rule, and
\* made a fix for a staged line.
C22_Witness ==
  /\ \E i \in issues :
       i.pass = "scan" /\ ~i.staged /\ Severity(i.rule) = "high"
  /\ \E i \in issues :
       i.pass = "scan" /\ i.staged /\ Severity(i.rule) = "medium"
  /\ \E fx \in fileChanges : fx.pass = "scan"

\* C23: every commit the tool creates, whether by autoApplyAndRecommit, by
\* guidedRecommit or by guidedRecommit's fallback after an error that reads
\* as a cancellation, is made with --no-verify, so no hook runs again.
C23_CommitsSkipHooks == \A i \in DOMAIN commits : commits[i].noVerify

C23_Witness ==
  /\ commits # <<>>
  /\ commits[1].by = "fallback"
  /\ commits[1].noVerify
  /\ "stageAll" \in hist.cancelled

\* C24: a file whose read, backup or write fails in autoApplyAndRecommit
\* is the only one abandoned: it is not among the applied files (whose
\* number the commit message gives), not re-staged and in no commit, its
\* content is untouched, and once the loop has ended every other staged
\* file has still been reviewed and every file written is re-staged.
C24_OnlyFailedFileAbandoned ==
  /\ \A f \in hist.failed :
       /\ f \notin Range(appliedFiles)
       /\ f \notin restaged
       /\ \A i \in DOMAIN commits : f \notin commits[i].files
       /\ disk[FilePath(f)] = InitialDisk[FilePath(f)]
  /\ (hist.failed # {} /\ pc \in {"confirmRecommit", "exited"}) =>
       /\ \A i \in DOMAIN autoFixes :
            LET f == autoFixes[i].filename
            IN (IsStaged(f) /\ f \notin hist.failed) => hist.review[f] # "none"
       /\ pc = "confirmRecommit" => restaged = Range(appliedFiles)
       /\ \A w \in hist.writes : w.path \in restaged

C24_Witness ==
  /\ pc = "exited"
  /\ hist.failed = {"src/a.js"}
  /\ hist.review["src/a.js"] = "accepted"
  /\ bak["src/a.js"] # Absent
  /\ Len(commits) = 1
  /\ commits[1].files = {"b.js"}
  /\ Range(appliedFiles) = {"b.js"}

\* C25: a prompt of safePrompt that races a timer is decided by exactly
\* one event. The step that ends the wait returns the user's answer with
\* cancelled false, or cancelled, and does nothing else; the event that
\* comes later changes neither the returned decision nor anything the
\* program does (no exit, no staging, no commit, no write, no move).
C25_RaceDecidesOnce ==
  [][ /\ (wait \in SafePromptSites /\ timeoutMs # 0 /\ wait' = "none") =>
           /\ \/ res' = Cancelled /\ wait \in hist'.cancelled
              \/ /\ \E v \in Choices(wait) : res' = Answered(v)
                 /\ wait \in hist'.answered
           /\ pc' = pc /\ exitCode' = exitCode /\ commits' = commits
           /\ restaged' = restaged /\ disk' = disk
      /\ hist'.lateEvents # hist.lateEvents =>
           /\ res' = res
           /\ pc' = pc /\ wait' = wait /\ exitCode' = exitCode
           /\ commits' = commits /\ restaged' = restaged /\ disk' = disk
    ]_vars

C25_Witness ==
  /\ hist.lateEvents = {"answer", "timer"}
  /\ "stageAll" \in hist.cancelled
  /\ "message" \in hist.answered
  /\ res = Answered("fix: apply suggestions")
  /\ pc = "message"

\* C26: the staged-change map validateCommit's analysis works with is built
\* from the filtered diff, and for every added line that survives the
\* filter the line number recorded is the line's 1-based position in the
\* new file, so the scan finds the staged line staged.
C26_SurvivingLineAtItsPosition ==
  (fate.kept /\ fate.k = "add" /\ fate.block \in Files) =>
    /\ currentLineNumber = truePos - 1
    /\ (truePos - 1) \in stagedChanges[fate.block]

\* C27: the filter keeps a change line exactly when it is a non-blank,
\* non-comment '+' or '-' line of a file that no EXCLUDED_FILES pattern
\* matches: a change line of an excluded file is never kept (so it is never
\* analysed nor counted for another file), and a code line of any other
\* file is never dropped for its text containing an excluded name.
C27_KeptIffCodeOfIncludedFile ==
  fate.k \in {"add", "del"} =>
    (fate.kept <=> (~fate.blank /\ fate.block # ExcludedFile))

\* C28: validateCommit leaves through 'Commit allowed' (exit 0 from the
\* test of the feedback, no decision prompt) only when the analysis found
\* no issue; with at least one issue reported it goes on to the decision
\* prompt or the policy for a cancelled prompt.
C28_AllowedOnlyWithoutIssues ==
  [][ (pc = "feedback" /\ feedback.issues) =>
        (pc' = "enhancedDecision" /\ exitCode' = exitCode) ]_vars

\* C29: 'Keep local changes and apply suggestions manually' changes the
\* content of no staged source file: every write of applyToNewFiles goes to
\* a path other than the staged files', a new file beside the source one.
C29_KeepLocalLeavesSources ==
  /\ \A w \in hist.writes : w.fn = "applyToNewFiles" => w.path \notin StagedFiles
  /\ (\A w \in hist.writes : w.fn = "applyToNewFiles") =>
       \A f \in StagedFiles : disk[f] = InitialDisk[f]

\* C30: the apply functions (autoApplyAndRecommit, applyAISuggestions,
\* applyToNewFiles) back up and overwrite staged files only: a fix whose
\* file name is not exactly a staged path, such as the fallback 'index.js'
\* or a name that is only the end of a staged path, has no file written
\* or backed up for it.
C30_OnlyStagedPathsTouched ==
  /\ \A w \in hist.writes : w.path \in StagedFiles
  /\ \A p \in DiskPaths : hist.backups[p] > 0 => p \in StagedFiles
  /\ \A p \in DiskPaths \ StagedFiles : bak[p] = Absent

====
